---- MODULE Spec2Model ----
(***************************************************************************)
(* State-machine model of the erc721-kit settlement engines:               *)
(*   ERC721Escrow.sol, ERC721Marketplace.sol, RoyaltyEngine.sol            *)
(* together with the ERC721 asset registry and the ether balances the      *)
(* engines act on.  Every external/public function that mutates state is   *)
(* one action; a call that reverts is a call whose action is not enabled   *)
(* (the EVM discards every effect of a reverted call).                     *)
(*                                                                         *)
(* Time is counted in units of 7 days (the escrow's dispute window is one  *)
(* unit); ether amounts are counted in thousandths of an ether, so that    *)
(* 1000 is 1.0 ether.                                                      *)
(***************************************************************************)
EXTENDS Integers, Sequences, FiniteSets, TLC

(***************************************************************************)
(* Bounds of the model.                                                    *)
(***************************************************************************)
MaxTime == 3
MaxEscrows == 2
MaxSettlements == 1
MaxListings == 2
MaxOffers == 1
MaxSales == 1
MaxBids == 2
MaxTotalSales == 2
InitialFunds == 2000
MaxTokens == 4
MaxMinted == 5
MaxDepth == 2
Horizon == 1
SolvencyHorizon == 2

(***************************************************************************)
(* Addresses.                                                              *)
(***************************************************************************)
ZERO == "0x0"
ESCROW == "escrow"
MARKET == "market"
\* a contract that keeps assets and ether for its owner and sends the calls
\* its owner tells it to: it implements onERC721Received and has no receive
\* or fallback function
VAULT == "vault"
OWNER == "owner"
\* stands for every owner in an operator approval the registry grants by itself
ANYONE == "anyone"
Holders == {"alice", "bob"}
Accounts == Holders \cup {"carol", OWNER, "treasury", "resolver"}
\* the asset registry (MockNFT)
NFT == "nft"
Addresses == Accounts \cup {ESCROW, MARKET, VAULT, NFT}

\* the RoyaltyEngine the marketplace is constructed with, whose records are
\* the royalty variables below, and a second deployment of RoyaltyEngine in
\* which nobody writes a record
ROYALTY == "royalty"
ROYALTY2 == "royalty2"
RoyaltyEngines == {ROYALTY, ROYALTY2}
\* the addresses offered to setRoyaltyEngine: the empty address, the two
\* engines and an account, which answers no call
RoyaltyEngineChoices == {ZERO, ROYALTY, ROYALTY2, "carol"}
\* an address given as a registry that answers neither owner() nor ownerOf()
PLAIN == "plain"
\* the addresses given to the engines as a registry
Registries == {NFT, PLAIN}
TokenIds == {1, 2}
Prices == {39, 1000}
FeeChoices == {250, 1000, 1001}
FeeRecipientChoices == {ZERO, "treasury", "alice"}
ResolverChoices == {ZERO, "resolver", "bob"}
Durations == {0, 1}
TradedTokens == {1}
Payments == {0, 39, 1000, 1500}
\* records offered to the royalty setters in the specification of the royalty
\* engine alone, and the sale prices it is asked about
RoyaltyRecords ==
    {[recipient |-> r, percentage |-> p] : r \in {ZERO, "carol", "bob"}, p \in {0, 500, 1000, 1001}}
SalePrices == {0, 39, 1000, 1999}

\* records and batches offered to the royalty engine where its checks on
\* callers and records are examined
AdminRecords ==
    { [recipient |-> ZERO, percentage |-> 0],
      [recipient |-> "carol", percentage |-> 500],
      [recipient |-> "carol", percentage |-> 1000],
      [recipient |-> "bob", percentage |-> 1001],
      [recipient |-> ZERO, percentage |-> 500] }
BatchEntries == {<<c, r>> : c \in {NFT, PLAIN}, r \in AdminRecords}
BatchOf(entries) ==
    [nftContracts |-> [i \in DOMAIN entries |-> entries[i][1]],
     recipients |-> [i \in DOMAIN entries |-> entries[i][2].recipient],
     percentages |-> [i \in DOMAIN entries |-> entries[i][2].percentage]]
Batches ==
    {BatchOf(<<>>)}
    \cup {BatchOf(<<e>>) : e \in BatchEntries}
    \cup {BatchOf(<<e1, e2>>) : e1 \in BatchEntries, e2 \in BatchEntries}
    \cup { [nftContracts |-> <<NFT>>, recipients |-> <<>>, percentages |-> <<500>>],
           [nftContracts |-> <<NFT, PLAIN>>, recipients |-> <<"carol", "carol">>,
            percentages |-> <<500>>] }

RoyaltyChoices ==
    { [recipient |-> ZERO, percentage |-> 0],
      [recipient |-> "carol", percentage |-> 1000],
      [recipient |-> ZERO, percentage |-> 500],
      [recipient |-> "carol", percentage |-> 1001] }

(***************************************************************************)
(* Program constants.                                                      *)
(***************************************************************************)
MAX_FEE_PERCENTAGE == 1000
MAX_ROYALTY_PERCENTAGE == 1000
disputeWindow == 1
DefaultFeePercentage == 250
\* MockNFT's maxSupply, mintPrice (0.01 ether) and maxMintPerTx after
\* construction
DefaultMaxSupply == 10000
DefaultMintPrice == 10
DefaultMaxMintPerTx == 10

VARIABLES
    now,                    \* block.timestamp
    balance,                \* ether balance of every address
    ownerOf,                \* ERC721: owner of each token id
    tokenApproval,          \* ERC721: getApproved(tokenId)
    operatorApproval,       \* ERC721: set of <<owner, operator>> with isApprovedForAll
    registryPaused,         \* Pausable._paused of the registry (MockNFT)
    maxSupply,              \* MockNFT.maxSupply
    mintPrice,              \* MockNFT.mintPrice
    maxMintPerTx,           \* MockNFT.maxMintPerTx
    publicMintEnabled,      \* MockNFT.publicMintEnabled
    escrowTransactions,     \* ERC721Escrow.escrowTransactions
    nextEscrowId,           \* ERC721Escrow.nextEscrowId
    userEscrows,            \* ERC721Escrow.userEscrows
    escrowFeePercentage,    \* ERC721Escrow.escrowFeePercentage
    escrowFeeRecipient,     \* ERC721Escrow.feeRecipient
    disputeResolver,        \* ERC721Escrow.disputeResolver
    escrowWhitelisted,      \* ERC721Escrow.whitelistedContracts
    escrowPaused,           \* Pausable._paused of ERC721Escrow
    listings,               \* ERC721Marketplace.listings
    offers,                 \* ERC721Marketplace.offers
    tokenToListingId,       \* ERC721Marketplace.tokenToListingId
    userListings,           \* ERC721Marketplace.userListings
    userOffers,             \* ERC721Marketplace.userOffers
    marketplaceFeePercentage, \* ERC721Marketplace.marketplaceFeePercentage
    marketFeeRecipient,     \* ERC721Marketplace.feeRecipient
    marketWhitelisted,      \* ERC721Marketplace.whitelistedContracts
    marketPaused,           \* Pausable._paused of ERC721Marketplace
    royaltyEngine,          \* ERC721Marketplace.royaltyEngine
    totalListings,          \* ERC721Marketplace.totalListings
    totalSales,             \* ERC721Marketplace.totalSales
    totalVolume,            \* ERC721Marketplace.totalVolume
    defaultRoyalty,         \* RoyaltyEngine.defaultRoyalty
    contractRoyalties,      \* RoyaltyEngine.contractRoyalties
    tokenRoyalties,         \* RoyaltyEngine.tokenRoyalties
    callOut                 \* the calls waiting for a recipient's callback to return,
                            \* outermost first

mintSettings == <<maxSupply, mintPrice, maxMintPerTx, publicMintEnabled>>
registryVars == <<ownerOf, tokenApproval, operatorApproval, registryPaused, mintSettings>>
escrowConfig == <<escrowFeePercentage, escrowFeeRecipient, disputeResolver,
                  escrowWhitelisted, escrowPaused>>
escrowVars == <<escrowTransactions, nextEscrowId, userEscrows>>
escrowState == <<escrowVars, escrowConfig>>
marketVars == <<listings, offers, tokenToListingId, userListings, userOffers>>
marketTotals == <<totalListings, totalSales, totalVolume>>
marketConfig == <<marketplaceFeePercentage, marketFeeRecipient, marketWhitelisted,
                  marketPaused, royaltyEngine>>
royaltyVars == <<defaultRoyalty, contractRoyalties, tokenRoyalties>>
marketState == <<marketVars, marketTotals, marketConfig, royaltyVars>>
vars == <<now, balance, registryVars, escrowState, marketState, callOut>>

(***************************************************************************)
(* Solidity mappings: a mapping is a function on the keys written so far;  *)
(* reading any other key gives the all-zero value.                         *)
(***************************************************************************)
Get(map, key, zero) == IF key \in DOMAIN map THEN map[key] ELSE zero

Put(map, key, value) ==
    [k \in DOMAIN map \cup {key} |-> IF k = key THEN value ELSE map[k]]

\* map[key].push(value) on a mapping to arrays
Push(map, key, value) == Put(map, key, Append(Get(map, key, <<>>), value))

\* The value of an unwritten slot of mapping(uint256 => EscrowTransaction):
\* all-zero, and EscrowStatus(0) is Active.
EmptyEscrow ==
    [seller |-> ZERO, buyer |-> ZERO, nftContract |-> ZERO, tokenId |-> 0,
     price |-> 0, createdAt |-> 0, deadline |-> 0, status |-> "Active",
     sellerApproved |-> FALSE, buyerApproved |-> FALSE]

EmptyListing ==
    [seller |-> ZERO, nftContract |-> ZERO, tokenId |-> 0, price |-> 0,
     createdAt |-> 0, expiresAt |-> 0, active |-> FALSE]

EmptyOffer ==
    [buyer |-> ZERO, nftContract |-> ZERO, tokenId |-> 0, amount |-> 0,
     createdAt |-> 0, expiresAt |-> 0, active |-> FALSE]

EmptyRoyalty == [recipient |-> ZERO, percentage |-> 0]

\* bytes32(0)
ZeroId == <<ZERO, 0, 0>>

\* what is read of the innermost waiting call when no call is waiting
NoCall ==
    [op |-> "none", recipient |-> ZERO, sender |-> ZERO, id |-> ZeroId, escrowId |-> 0,
     value |-> 0, fee |-> 0, sellerAmount |-> 0, royalty |-> [recipient |-> ZERO, amount |-> 0],
     tokenId |-> 0, cost |-> 0, pending |-> <<>>]

\* the innermost of the calls that are waiting for a callback
Frame == IF Len(callOut) = 0 THEN NoCall ELSE callOut[Len(callOut)]

\* ReentrancyGuard: the engine is inside one of its nonReentrant functions.
\* Of the escrow engine only createEscrow is nonReentrant, and its asset
\* transfer goes to the engine itself, whose onERC721Received calls nothing.
\* Of the registry mint and batchMint are nonReentrant.
MarketEntered == \E i \in 1..Len(callOut) : callOut[i].op \in {"buyItem", "acceptOffer"}
EscrowEntered == \E i \in 1..Len(callOut) : callOut[i].op = "createEscrow"
RegistryEntered == \E i \in 1..Len(callOut) : callOut[i].op \in {"mint", "batchMint"}

EscrowAt(escrowId) == Get(escrowTransactions, escrowId, EmptyEscrow)
ListingAt(listingId) == Get(listings, listingId, EmptyListing)
OfferAt(offerId) == Get(offers, offerId, EmptyOffer)
TokenListing(nftContract, tokenId) == Get(tokenToListingId, <<nftContract, tokenId>>, ZeroId)

Init ==
    /\ now = 0
    /\ balance = [a \in Addresses |-> IF a \in Holders \cup {"carol", VAULT} THEN InitialFunds ELSE 0]
    /\ ownerOf = [t \in TokenIds |-> "alice"]
    /\ tokenApproval = [t \in TokenIds |-> ZERO]
    /\ operatorApproval = {}
    /\ registryPaused = FALSE
    /\ maxSupply = DefaultMaxSupply
    /\ mintPrice = DefaultMintPrice
    /\ maxMintPerTx = DefaultMaxMintPerTx
    /\ publicMintEnabled = TRUE
    /\ escrowTransactions = <<>>
    /\ nextEscrowId = 1
    /\ userEscrows = [a \in Accounts |-> <<>>]
    /\ escrowFeePercentage = DefaultFeePercentage
    /\ escrowFeeRecipient = "treasury"
    /\ disputeResolver = "resolver"
    /\ escrowWhitelisted = [c \in {NFT} |-> FALSE]
    /\ escrowPaused = FALSE
    /\ listings = <<>>
    /\ offers = <<>>
    /\ tokenToListingId = [k \in {NFT} \X TokenIds |-> ZeroId]
    /\ userListings = [a \in Accounts |-> <<>>]
    /\ userOffers = [a \in Accounts |-> <<>>]
    /\ marketplaceFeePercentage = DefaultFeePercentage
    /\ marketFeeRecipient = "treasury"
    /\ marketWhitelisted = [c \in {NFT} |-> FALSE]
    /\ marketPaused = FALSE
    /\ royaltyEngine = ROYALTY
    /\ totalListings = 0
    /\ totalSales = 0
    /\ totalVolume = 0
    /\ defaultRoyalty = EmptyRoyalty
    /\ contractRoyalties = [c \in {NFT} |-> EmptyRoyalty]
    /\ tokenRoyalties = [k \in {NFT} \X TokenIds |-> EmptyRoyalty]
    /\ callOut = <<>>

(***************************************************************************)
(* Ether and the asset registry (IERC721).                                 *)
(***************************************************************************)
\* payable(to).transfer(amt) out of `from` fails when from's balance is
\* smaller than amt.
CanPay(bal, from, amt) == bal[from] >= amt

Pay(bal, from, to, amt) ==
    IF from = to THEN bal
    ELSE [bal EXCEPT ![from] = @ - amt, ![to] = @ + amt]

\* the owner Ownable(nftContract).owner() reports for the registry NFT
RegistryOwner == "carol"

\* payable(to).transfer(amount) succeeds: the two engines, the registry and
\* the vault are contracts with no receive or fallback function, every other
\* address is an account
CanReceive(to) == to \notin {ESCROW, MARKET, VAULT, NFT}

\* the address is a contract that answers the calls of IERC721: of the
\* addresses given to the engines as a registry, the registry NFT
IsRegistry(nftContract) == nftContract = NFT

\* ERC721._exists(tokenId): minted and not burned; ownerOf(tokenId) reverts
\* for any other id
Exists(t) == t \in DOMAIN ownerOf /\ ownerOf[t] # ZERO

\* isApprovedForAll(owner, operator): the registry answers true for an
\* operator it has whitelisted as a marketplace, kept here as the pair
\* <<ANYONE, operator>>, and otherwise what setApprovalForAll stored
isApprovedForAll(owner, operator) ==
    \/ <<ANYONE, operator>> \in operatorApproval
    \/ <<owner, operator>> \in operatorApproval

\* ERC721._isApprovedOrOwner(spender, tokenId)
IsApprovedOrOwner(spender, t) ==
    /\ Exists(t)
    /\ \/ ownerOf[t] = spender
       \/ tokenApproval[t] = spender
       \/ isApprovedForAll(ownerOf[t], spender)

\* ERC721._checkOnERC721Received(from, to, tokenId): an address without
\* code passes, a contract passes when its onERC721Received answers the
\* selector; the engines and the vault implement it, the registry and the
\* royalty engines do not
CanReceiveToken(to) == to \notin {NFT, PLAIN, ROYALTY, ROYALTY2}

\* IERC721.transferFrom(from, to, tokenId) called by `spender` succeeds; the
\* registry's _beforeTokenTransfer is whenNotPaused
CanTransfer(spender, from, to, t) ==
    /\ ~registryPaused
    /\ Exists(t)
    /\ ownerOf[t] = from
    /\ to # ZERO
    /\ IsApprovedOrOwner(spender, t)

\* IERC721.safeTransferFrom(from, to, tokenId) called by `spender` succeeds
CanTransferToken(spender, from, to, t) ==
    /\ CanTransfer(spender, from, to, t)
    /\ CanReceiveToken(to)

\* isApprovedForAll(owner, engine) || getApproved(tokenId) == engine
EngineApproved(engine, owner, t) ==
    \/ isApprovedForAll(owner, engine)
    \/ tokenApproval[t] = engine

\* block.timestamp advances
Tick ==
    /\ now < MaxTime
    /\ now' = now + 1
    /\ UNCHANGED <<callOut, balance, registryVars, escrowState, marketState>>

\* IERC721.approve(to, tokenId) by the token's owner or by an operator of
\* the owner
approve(caller, to, t) ==
    /\ Exists(t)
    /\ to # ownerOf[t]
    /\ (caller = ownerOf[t] \/ isApprovedForAll(ownerOf[t], caller))
    /\ tokenApproval' = [tokenApproval EXCEPT ![t] = to]
    /\ UNCHANGED <<now, callOut, balance, ownerOf, operatorApproval, registryPaused, mintSettings,
                   escrowState, marketState>>

\* IERC721.setApprovalForAll(operator, approved)
setApprovalForAll(caller, operator, approved) ==
    /\ operator # caller
    /\ operatorApproval' = IF approved
                           THEN operatorApproval \cup {<<caller, operator>>}
                           ELSE operatorApproval \ {<<caller, operator>>}
    /\ UNCHANGED <<now, callOut, balance, ownerOf, tokenApproval, registryPaused, mintSettings, escrowState,
                   marketState>>

\* MockNFT.setMarketplaceWhitelist(marketplace, whitelisted)
setMarketplaceWhitelist(caller, marketplace, whitelisted) ==
    /\ caller = RegistryOwner
    /\ operatorApproval' = IF whitelisted
                           THEN operatorApproval \cup {<<ANYONE, marketplace>>}
                           ELSE operatorApproval \ {<<ANYONE, marketplace>>}
    /\ UNCHANGED <<now, callOut, balance, ownerOf, tokenApproval, registryPaused, mintSettings, escrowState,
                   marketState>>

\* IERC721.transferFrom(from, to, tokenId) sent by the owner, by the address
\* approved for the token or by an operator, outside the engines
transferFrom(caller, from, to, t) ==
    /\ CanTransfer(caller, from, to, t)
    /\ ownerOf' = [ownerOf EXCEPT ![t] = to]
    /\ tokenApproval' = [tokenApproval EXCEPT ![t] = ZERO]
    /\ UNCHANGED <<now, callOut, balance, operatorApproval, registryPaused, mintSettings, escrowState,
                   marketState>>

\* ERC721Burnable.burn(tokenId): the token has no owner afterwards
burn(caller, t) ==
    /\ ~registryPaused
    /\ IsApprovedOrOwner(caller, t)
    /\ ownerOf' = [ownerOf EXCEPT ![t] = ZERO]
    /\ tokenApproval' = [tokenApproval EXCEPT ![t] = ZERO]
    /\ UNCHANGED <<now, callOut, balance, operatorApproval, registryPaused, mintSettings, escrowState,
                   marketState>>

\* _tokenIdCounter.current(): ids are handed out in order, starting at 1,
\* and a burned id is never handed out again
NextTokenId == Cardinality(DOMAIN ownerOf) + 1

\* ERC721._safeMint(to, tokenId) succeeds; the registry's
\* _beforeTokenTransfer is whenNotPaused
CanMint(to) ==
    /\ ~registryPaused
    /\ to # ZERO
    /\ CanReceiveToken(to)

\* the owners after the ids from NextTokenId on are minted to `recipients`
\* in order
MintedTo(owners, recipients) ==
    [t \in DOMAIN owners \cup (NextTokenId..(NextTokenId + Len(recipients) - 1)) |->
        IF t \in DOMAIN owners THEN owners[t] ELSE recipients[t - NextTokenId + 1]]

\* the approvals after Len(recipients) ids are minted
MintedApprovals(approvals, recipients) ==
    [t \in DOMAIN approvals \cup (NextTokenId..(NextTokenId + Len(recipients) - 1)) |->
        IF t \in DOMAIN approvals THEN approvals[t] ELSE ZERO]

\* the require statements and modifiers of mint
mintRequires(value) ==
    /\ ~RegistryEntered
    /\ ~registryPaused
    /\ publicMintEnabled
    /\ value >= mintPrice
    /\ NextTokenId <= maxSupply

\* MockNFT.mint(to, uri) sent with `value`, to a recipient without code: the
\* price stays with the registry and the excess goes back to the caller
mint(caller, to, value) ==
    /\ CanPay(balance, caller, value)
    /\ mintRequires(value)
    /\ CanMint(to)
    /\ (value > mintPrice => CanReceive(caller))
    /\ ownerOf' = MintedTo(ownerOf, <<to>>)
    /\ tokenApproval' = MintedApprovals(tokenApproval, <<to>>)
    /\ balance' = Pay(balance, caller, NFT, mintPrice)
    /\ UNCHANGED <<now, callOut, operatorApproval, registryPaused, mintSettings, escrowState,
                   marketState>>

\* the require statements and modifiers of batchMint
batchMintRequires(count, value) ==
    /\ ~RegistryEntered
    /\ ~registryPaused
    /\ publicMintEnabled
    /\ count > 0
    /\ count <= maxMintPerTx
    /\ value >= mintPrice * count
    /\ NextTokenId + count - 1 <= maxSupply

\* MockNFT.batchMint(to, uris) with `count` uris, sent with `value`, to a
\* recipient without code
batchMint(caller, to, count, value) ==
    /\ CanPay(balance, caller, value)
    /\ batchMintRequires(count, value)
    /\ CanMint(to)
    /\ (value > mintPrice * count => CanReceive(caller))
    /\ ownerOf' = MintedTo(ownerOf, [i \in 1..count |-> to])
    /\ tokenApproval' = MintedApprovals(tokenApproval, [i \in 1..count |-> to])
    /\ balance' = Pay(balance, caller, NFT, mintPrice * count)
    /\ UNCHANGED <<now, callOut, operatorApproval, registryPaused, mintSettings, escrowState,
                   marketState>>

\* MockNFT.ownerMint(to, uri), to a recipient without code
ownerMint(caller, to) ==
    /\ caller = RegistryOwner
    /\ NextTokenId <= maxSupply
    /\ CanMint(to)
    /\ ownerOf' = MintedTo(ownerOf, <<to>>)
    /\ tokenApproval' = MintedApprovals(tokenApproval, <<to>>)
    /\ UNCHANGED <<now, callOut, balance, operatorApproval, registryPaused, mintSettings,
                   escrowState, marketState>>

\* MockNFT.ownerBatchMint(recipients, uris) with as many uris as recipients,
\* to recipients without code
ownerBatchMint(caller, recipients) ==
    /\ caller = RegistryOwner
    /\ NextTokenId + Len(recipients) - 1 <= maxSupply
    /\ \A i \in 1..Len(recipients) : CanMint(recipients[i])
    /\ ownerOf' = MintedTo(ownerOf, recipients)
    /\ tokenApproval' = MintedApprovals(tokenApproval, recipients)
    /\ UNCHANGED <<now, callOut, balance, operatorApproval, registryPaused, mintSettings,
                   escrowState, marketState>>

\* MockNFT.setMintPrice(newPrice)
setMintPrice(caller, newPrice) ==
    /\ caller = RegistryOwner
    /\ mintPrice' = newPrice
    /\ UNCHANGED <<now, callOut, balance, ownerOf, tokenApproval, operatorApproval,
                   registryPaused, maxSupply, maxMintPerTx, publicMintEnabled, escrowState,
                   marketState>>

\* MockNFT.setMaxSupply(newMaxSupply): not below the number of ids handed out
setMaxSupply(caller, newMaxSupply) ==
    /\ caller = RegistryOwner
    /\ newMaxSupply >= NextTokenId - 1
    /\ maxSupply' = newMaxSupply
    /\ UNCHANGED <<now, callOut, balance, ownerOf, tokenApproval, operatorApproval,
                   registryPaused, mintPrice, maxMintPerTx, publicMintEnabled, escrowState,
                   marketState>>

\* MockNFT.setMaxMintPerTx(newMaxMintPerTx)
setMaxMintPerTx(caller, newMaxMintPerTx) ==
    /\ caller = RegistryOwner
    /\ maxMintPerTx' = newMaxMintPerTx
    /\ UNCHANGED <<now, callOut, balance, ownerOf, tokenApproval, operatorApproval,
                   registryPaused, maxSupply, mintPrice, publicMintEnabled, escrowState,
                   marketState>>

\* MockNFT.setPublicMintEnabled(enabled)
setPublicMintEnabled(caller, enabled) ==
    /\ caller = RegistryOwner
    /\ publicMintEnabled' = enabled
    /\ UNCHANGED <<now, callOut, balance, ownerOf, tokenApproval, operatorApproval,
                   registryPaused, maxSupply, mintPrice, maxMintPerTx, escrowState,
                   marketState>>

\* MockNFT.withdraw(): the registry's balance goes to its owner
withdraw(caller) ==
    /\ caller = RegistryOwner
    /\ balance[NFT] > 0
    /\ CanReceive(RegistryOwner)
    /\ balance' = Pay(balance, NFT, RegistryOwner, balance[NFT])
    /\ UNCHANGED <<now, callOut, registryVars, escrowState, marketState>>

\* MockNFT.emergencyWithdraw(): the same without the check on the balance
registryEmergencyWithdraw(caller) ==
    /\ caller = RegistryOwner
    /\ CanReceive(RegistryOwner)
    /\ balance' = Pay(balance, NFT, RegistryOwner, balance[NFT])
    /\ UNCHANGED <<now, callOut, registryVars, escrowState, marketState>>

\* MockNFT.pause(): while the registry is paused no asset is transferred,
\* minted or burned
registryPause(caller) ==
    /\ caller = RegistryOwner
    /\ ~registryPaused
    /\ registryPaused' = TRUE
    /\ UNCHANGED <<now, callOut, balance, ownerOf, tokenApproval, operatorApproval,
                   mintSettings, escrowState, marketState>>

\* MockNFT.unpause()
registryUnpause(caller) ==
    /\ caller = RegistryOwner
    /\ registryPaused
    /\ registryPaused' = FALSE
    /\ UNCHANGED <<now, callOut, balance, ownerOf, tokenApproval, operatorApproval,
                   mintSettings, escrowState, marketState>>

(***************************************************************************)
(* ERC721Escrow                                                            *)
(***************************************************************************)
\* modifier validEscrow
validEscrow(escrowId) == escrowId > 0 /\ escrowId < nextEscrowId

\* the fee rounded up instead of down
EscrowFeeRoundedUp(price) == (price * escrowFeePercentage + 9999) \div 10000

\* fee = (escrow.price * escrowFeePercentage) / 10000
EscrowFee(price) == (price * escrowFeePercentage) \div 10000

\* createEscrow without the check that the buyer is not the caller
createEscrowToSelf(caller, buyer, nftContract, tokenId, deadline, value) ==
    /\ ~escrowPaused
    /\ buyer # ZERO
    /\ nftContract \in DOMAIN escrowWhitelisted
    /\ escrowWhitelisted[nftContract]
    /\ value > 0
    /\ deadline > now
    /\ IsRegistry(nftContract)
    /\ Exists(tokenId)
    /\ ownerOf[tokenId] = caller
    /\ EngineApproved(ESCROW, caller, tokenId)

\* the require statements of createEscrow
createEscrowRequires(caller, buyer, nftContract, tokenId, deadline, value) ==
    /\ ~EscrowEntered
    /\ ~escrowPaused
    /\ buyer # ZERO
    /\ buyer # caller
    /\ nftContract \in DOMAIN escrowWhitelisted
    /\ escrowWhitelisted[nftContract]
    /\ value > 0
    /\ deadline > now
    /\ IsRegistry(nftContract)
    /\ Exists(tokenId)
    /\ ownerOf[tokenId] = caller
    /\ EngineApproved(ESCROW, caller, tokenId)

\* createEscrow that records the escrow and leaves the asset with the seller
createEscrowWithoutCustody(caller, buyer, nftContract, tokenId, deadline, value) ==
    /\ CanPay(balance, caller, value)
    /\ createEscrowRequires(caller, buyer, nftContract, tokenId, deadline, value)
    /\ nextEscrowId' = nextEscrowId + 1
    /\ escrowTransactions' = Put(escrowTransactions, nextEscrowId,
          [seller |-> caller, buyer |-> buyer, nftContract |-> nftContract,
           tokenId |-> tokenId, price |-> value, createdAt |-> now,
           deadline |-> deadline, status |-> "Active",
           sellerApproved |-> FALSE, buyerApproved |-> FALSE])
    /\ userEscrows' = Push(Push(userEscrows, caller, nextEscrowId), buyer, nextEscrowId)
    /\ balance' = Pay(balance, caller, ESCROW, value)
    /\ UNCHANGED <<now, callOut, registryVars, escrowConfig, marketState>>

createEscrow(caller, buyer, nftContract, tokenId, deadline, value) ==
    /\ CanPay(balance, caller, value)
    /\ createEscrowRequires(caller, buyer, nftContract, tokenId, deadline, value)
    /\ CanTransferToken(ESCROW, caller, ESCROW, tokenId)
    /\ nextEscrowId' = nextEscrowId + 1
    /\ escrowTransactions' = Put(escrowTransactions, nextEscrowId,
          [seller |-> caller, buyer |-> buyer, nftContract |-> nftContract,
           tokenId |-> tokenId, price |-> value, createdAt |-> now,
           deadline |-> deadline, status |-> "Active",
           sellerApproved |-> FALSE, buyerApproved |-> FALSE])
    /\ userEscrows' = Push(Push(userEscrows, caller, nextEscrowId), buyer, nextEscrowId)
    /\ ownerOf' = [ownerOf EXCEPT ![tokenId] = ESCROW]
    /\ tokenApproval' = [tokenApproval EXCEPT ![tokenId] = ZERO]
    /\ balance' = Pay(balance, caller, ESCROW, value)
    /\ UNCHANGED <<now, callOut, operatorApproval, registryPaused, mintSettings, escrowConfig, marketState>>

\* _completeEscrow: the transfers it makes can all be carried out
CanCompleteEscrow(e) ==
    /\ IsRegistry(e.nftContract)
    /\ CanTransferToken(ESCROW, ESCROW, e.buyer, e.tokenId)
    /\ CanPay(balance, ESCROW, e.price)
    /\ CanReceive(e.seller)
    /\ (EscrowFee(e.price) > 0 => CanReceive(escrowFeeRecipient))

\* _completeEscrow leaving the fee in the engine
CompletedBalanceFeeKept(e) ==
    Pay(balance, ESCROW, e.seller, e.price - EscrowFee(e.price))

\* _completeEscrow: the balances after seller and fee recipient are paid
CompletedBalance(e) ==
    LET fee == EscrowFee(e.price)
        sellerAmount == e.price - fee
        b1 == Pay(balance, ESCROW, e.seller, sellerAmount)
    IN  IF fee > 0 THEN Pay(b1, ESCROW, escrowFeeRecipient, fee) ELSE b1

\* _completeEscrow(escrowId) on the record e (with its approval flags as
\* they are when completion starts)
completeEscrow(escrowId, e) ==
    /\ CanCompleteEscrow(e)
    /\ escrowTransactions' = Put(escrowTransactions, escrowId, [e EXCEPT !.status = "Completed"])
    /\ ownerOf' = [ownerOf EXCEPT ![e.tokenId] = e.buyer]
    /\ tokenApproval' = [tokenApproval EXCEPT ![e.tokenId] = ZERO]
    /\ balance' = CompletedBalance(e)

\* the cancellation payout: asset back to the seller, price to the buyer
CanRefundEscrow(e) ==
    /\ IsRegistry(e.nftContract)
    /\ CanTransferToken(ESCROW, ESCROW, e.seller, e.tokenId)
    /\ CanPay(balance, ESCROW, e.price)
    /\ CanReceive(e.buyer)

\* a cancellation payout that keeps the fee
refundEscrowLessFee(escrowId, e) ==
    /\ CanRefundEscrow(e)
    /\ escrowTransactions' = Put(escrowTransactions, escrowId, [e EXCEPT !.status = "Cancelled"])
    /\ ownerOf' = [ownerOf EXCEPT ![e.tokenId] = e.seller]
    /\ tokenApproval' = [tokenApproval EXCEPT ![e.tokenId] = ZERO]
    /\ balance' = Pay(Pay(balance, ESCROW, e.buyer, e.price - EscrowFee(e.price)),
                      ESCROW, escrowFeeRecipient, EscrowFee(e.price))

\* a cancellation payout that hands the asset to the buyer
refundEscrowAssetToBuyer(escrowId, e) ==
    /\ CanRefundEscrow(e)
    /\ escrowTransactions' = Put(escrowTransactions, escrowId, [e EXCEPT !.status = "Cancelled"])
    /\ ownerOf' = [ownerOf EXCEPT ![e.tokenId] = e.buyer]
    /\ tokenApproval' = [tokenApproval EXCEPT ![e.tokenId] = ZERO]
    /\ balance' = Pay(balance, ESCROW, e.buyer, e.price)

refundEscrow(escrowId, e) ==
    /\ CanRefundEscrow(e)
    /\ escrowTransactions' = Put(escrowTransactions, escrowId, [e EXCEPT !.status = "Cancelled"])
    /\ ownerOf' = [ownerOf EXCEPT ![e.tokenId] = e.seller]
    /\ tokenApproval' = [tokenApproval EXCEPT ![e.tokenId] = ZERO]
    /\ balance' = Pay(balance, ESCROW, e.buyer, e.price)

\* the require statements of approveEscrow
approveEscrowRequires(caller, escrowId) ==
    /\ validEscrow(escrowId)
    /\ EscrowAt(escrowId).status = "Active"
    /\ (caller = EscrowAt(escrowId).seller \/ caller = EscrowAt(escrowId).buyer)

\* an approval that sets both flags
ApprovedRecordBoth(e, caller) ==
    [e EXCEPT !.sellerApproved = TRUE, !.buyerApproved = TRUE]

\* the record after approveEscrow has set the caller's flag
ApprovedRecord(e, caller) ==
    IF caller = e.seller
    THEN [e EXCEPT !.sellerApproved = TRUE]
    ELSE [e EXCEPT !.buyerApproved = TRUE]

\* approveEscrow completing on the first approval
approveEscrowOnEither(caller, escrowId) ==
    /\ approveEscrowRequires(caller, escrowId)
    /\ LET e == ApprovedRecord(EscrowAt(escrowId), caller) IN
         IF e.sellerApproved \/ e.buyerApproved
         THEN completeEscrow(escrowId, e)
         ELSE /\ escrowTransactions' = Put(escrowTransactions, escrowId, e)
              /\ UNCHANGED <<ownerOf, tokenApproval, balance>>
    /\ UNCHANGED <<now, callOut, operatorApproval, registryPaused, mintSettings, nextEscrowId, userEscrows,
                   escrowConfig, marketState>>

approveEscrow(caller, escrowId) ==
    /\ approveEscrowRequires(caller, escrowId)
    /\ LET e == ApprovedRecord(EscrowAt(escrowId), caller) IN
         IF e.sellerApproved /\ e.buyerApproved
         THEN completeEscrow(escrowId, e)
         ELSE /\ escrowTransactions' = Put(escrowTransactions, escrowId, e)
              /\ UNCHANGED <<ownerOf, tokenApproval, balance>>
    /\ UNCHANGED <<now, callOut, operatorApproval, registryPaused, mintSettings, nextEscrowId, userEscrows,
                   escrowConfig, marketState>>

\* an approveEscrow call that sets the first of the two flags, and so makes
\* no transfer
approveEscrowFirst(caller, escrowId) ==
    /\ ~(ApprovedRecord(EscrowAt(escrowId), caller).sellerApproved
          /\ ApprovedRecord(EscrowAt(escrowId), caller).buyerApproved)
    /\ approveEscrow(caller, escrowId)

\* the require statements of cancelEscrow
cancelEscrowRequires(caller, escrowId) ==
    /\ validEscrow(escrowId)
    /\ EscrowAt(escrowId).status = "Active"
    /\ \/ caller = EscrowAt(escrowId).seller
       \/ caller = EscrowAt(escrowId).buyer
       \/ now > EscrowAt(escrowId).deadline

cancelEscrow(caller, escrowId) ==
    /\ cancelEscrowRequires(caller, escrowId)
    /\ refundEscrow(escrowId, EscrowAt(escrowId))
    /\ UNCHANGED <<now, callOut, operatorApproval, registryPaused, mintSettings, nextEscrowId, userEscrows,
                   escrowConfig, marketState>>

\* initiateDispute with a dispute window twice as long
initiateDisputeLongWindow(caller, escrowId) ==
    /\ validEscrow(escrowId)
    /\ EscrowAt(escrowId).status = "Active"
    /\ (caller = EscrowAt(escrowId).seller \/ caller = EscrowAt(escrowId).buyer)
    /\ now <= EscrowAt(escrowId).deadline + 2 * disputeWindow

\* initiateDispute without its status check
initiateDisputeAnyStatus(caller, escrowId) ==
    /\ validEscrow(escrowId)
    /\ (caller = EscrowAt(escrowId).seller \/ caller = EscrowAt(escrowId).buyer)
    /\ now <= EscrowAt(escrowId).deadline + disputeWindow

\* the require statements of initiateDispute
initiateDisputeRequires(caller, escrowId) ==
    /\ validEscrow(escrowId)
    /\ EscrowAt(escrowId).status = "Active"
    /\ (caller = EscrowAt(escrowId).seller \/ caller = EscrowAt(escrowId).buyer)
    /\ now <= EscrowAt(escrowId).deadline + disputeWindow

initiateDispute(caller, escrowId) ==
    /\ initiateDisputeRequires(caller, escrowId)
    /\ escrowTransactions' = Put(escrowTransactions, escrowId,
          [EscrowAt(escrowId) EXCEPT !.status = "Disputed"])
    /\ UNCHANGED <<now, callOut, balance, registryVars, nextEscrowId, userEscrows, escrowConfig,
                   marketState>>

\* resolveDispute open to the owner as well
resolveDisputeByOwnerToo(caller, escrowId) ==
    /\ (caller = disputeResolver \/ caller = OWNER)
    /\ validEscrow(escrowId)
    /\ EscrowAt(escrowId).status = "Disputed"

\* modifier onlyDisputeResolver, validEscrow and the require of resolveDispute
resolveDisputeRequires(caller, escrowId) ==
    /\ caller = disputeResolver
    /\ validEscrow(escrowId)
    /\ EscrowAt(escrowId).status = "Disputed"

resolveDispute(caller, escrowId, favorBuyer) ==
    /\ resolveDisputeRequires(caller, escrowId)
    /\ IF favorBuyer
       THEN completeEscrow(escrowId, EscrowAt(escrowId))
       ELSE refundEscrow(escrowId, EscrowAt(escrowId))
    /\ UNCHANGED <<now, callOut, operatorApproval, registryPaused, mintSettings, nextEscrowId, userEscrows,
                   escrowConfig, marketState>>

escrowSetContractWhitelist(caller, nftContract, whitelisted) ==
    /\ caller = OWNER
    /\ escrowWhitelisted' = Put(escrowWhitelisted, nftContract, whitelisted)
    /\ UNCHANGED <<now, callOut, balance, registryVars, escrowVars, escrowFeePercentage,
                   escrowFeeRecipient, disputeResolver, escrowPaused, marketState>>

\* setEscrowFee without its cap
setEscrowFeeUncapped(caller, newFeePercentage) ==
    /\ caller = OWNER
    /\ escrowFeePercentage' = newFeePercentage
    /\ UNCHANGED <<now, callOut, balance, registryVars, escrowVars, escrowFeeRecipient,
                   disputeResolver, escrowWhitelisted, escrowPaused, marketState>>

setEscrowFee(caller, newFeePercentage) ==
    /\ caller = OWNER
    /\ newFeePercentage <= MAX_FEE_PERCENTAGE
    /\ escrowFeePercentage' = newFeePercentage
    /\ UNCHANGED <<now, callOut, balance, registryVars, escrowVars, escrowFeeRecipient,
                   disputeResolver, escrowWhitelisted, escrowPaused, marketState>>

escrowSetFeeRecipient(caller, newFeeRecipient) ==
    /\ caller = OWNER
    /\ newFeeRecipient # ZERO
    /\ escrowFeeRecipient' = newFeeRecipient
    /\ UNCHANGED <<now, callOut, balance, registryVars, escrowVars, escrowFeePercentage,
                   disputeResolver, escrowWhitelisted, escrowPaused, marketState>>

setDisputeResolver(caller, newDisputeResolver) ==
    /\ caller = OWNER
    /\ newDisputeResolver # ZERO
    /\ disputeResolver' = newDisputeResolver
    /\ UNCHANGED <<now, callOut, balance, registryVars, escrowVars, escrowFeePercentage,
                   escrowFeeRecipient, escrowWhitelisted, escrowPaused, marketState>>

escrowPause(caller) ==
    /\ caller = OWNER
    /\ ~escrowPaused
    /\ escrowPaused' = TRUE
    /\ UNCHANGED <<now, callOut, balance, registryVars, escrowVars, escrowFeePercentage,
                   escrowFeeRecipient, disputeResolver, escrowWhitelisted, marketState>>

escrowUnpause(caller) ==
    /\ caller = OWNER
    /\ escrowPaused
    /\ escrowPaused' = FALSE
    /\ UNCHANGED <<now, callOut, balance, registryVars, escrowVars, escrowFeePercentage,
                   escrowFeeRecipient, disputeResolver, escrowWhitelisted, marketState>>

\* emergencyWithdraw without whenPaused
escrowEmergencyWithdrawAnytime(caller) ==
    /\ caller = OWNER
    /\ balance' = Pay(balance, ESCROW, OWNER, balance[ESCROW])
    /\ UNCHANGED <<now, callOut, registryVars, escrowState, marketState>>

escrowEmergencyWithdraw(caller) ==
    /\ caller = OWNER
    /\ escrowPaused
    /\ balance' = Pay(balance, ESCROW, OWNER, balance[ESCROW])
    /\ UNCHANGED <<now, callOut, registryVars, escrowState, marketState>>

(***************************************************************************)
(* RoyaltyEngine                                                           *)
(***************************************************************************)
\* What the asset registry answers to the EIP-2981 probe of getRoyalty:
\* whether supportsInterface(IERC2981) holds, whether royaltyInfo reverts,
\* and the recipient and fraction (basis points of the sale price) it reports.
RegistryAnswers ==
    { [supports |-> FALSE, reverts |-> FALSE, recipient |-> ZERO, fraction |-> 0],
      [supports |-> TRUE, reverts |-> TRUE, recipient |-> ZERO, fraction |-> 0],
      [supports |-> TRUE, reverts |-> FALSE, recipient |-> ZERO, fraction |-> 500],
      [supports |-> TRUE, reverts |-> FALSE, recipient |-> "carol", fraction |-> 1000],
      [supports |-> TRUE, reverts |-> FALSE, recipient |-> "carol", fraction |-> 1100] }

\* registries without the royalty-query capability, whatever their
\* royaltyInfo would do, and registries with it
NoCapabilityAnswers ==
    {[supports |-> FALSE, reverts |-> rv, recipient |-> r, fraction |-> f] :
        rv \in BOOLEAN, r \in {ZERO, "carol"}, f \in {0, 1000}}
CapabilityAnswers ==
    {[supports |-> TRUE, reverts |-> rv, recipient |-> r, fraction |-> f] :
        rv \in BOOLEAN, r \in {ZERO, "carol"}, f \in {0, 500, 1000, 1001}}

\* IERC2981(nftContract).royaltyInfo(tokenId, salePrice) of the registry
RegistryRoyaltyAmount(ext, salePrice) == (salePrice * ext.fraction) \div 10000

ContractRoyalty(nftContract) == Get(contractRoyalties, nftContract, EmptyRoyalty)
TokenRoyalty(nftContract, tokenId) == Get(tokenRoyalties, <<nftContract, tokenId>>, EmptyRoyalty)

\* a stored record counts as set when it has a recipient or a percentage
RoyaltySet(r) == r.recipient # ZERO \/ r.percentage > 0

RoyaltyOf(r, salePrice) ==
    [recipient |-> r.recipient, amount |-> (salePrice * r.percentage) \div 10000]

\* the stored records looked up with the contract's record ahead of the token's
StoredRoyaltyContractFirst(nftContract, tokenId, salePrice) ==
    IF RoyaltySet(ContractRoyalty(nftContract))
    THEN RoyaltyOf(ContractRoyalty(nftContract), salePrice)
    ELSE IF RoyaltySet(TokenRoyalty(nftContract, tokenId))
    THEN RoyaltyOf(TokenRoyalty(nftContract, tokenId), salePrice)
    ELSE IF RoyaltySet(defaultRoyalty)
    THEN RoyaltyOf(defaultRoyalty, salePrice)
    ELSE [recipient |-> ZERO, amount |-> 0]

\* getRoyalty below the EIP-2981 probe: token, contract, default, none
StoredRoyalty(nftContract, tokenId, salePrice) ==
    IF RoyaltySet(TokenRoyalty(nftContract, tokenId))
    THEN RoyaltyOf(TokenRoyalty(nftContract, tokenId), salePrice)
    ELSE IF RoyaltySet(ContractRoyalty(nftContract))
    THEN RoyaltyOf(ContractRoyalty(nftContract), salePrice)
    ELSE IF RoyaltySet(defaultRoyalty)
    THEN RoyaltyOf(defaultRoyalty, salePrice)
    ELSE [recipient |-> ZERO, amount |-> 0]

\* getRoyalty without the limit on the registry's answer
getRoyaltyUncapped(nftContract, tokenId, salePrice, ext) ==
    IF ext.supports /\ ~ext.reverts /\ ext.recipient # ZERO
    THEN [recipient |-> ext.recipient, amount |-> RegistryRoyaltyAmount(ext, salePrice)]
    ELSE StoredRoyalty(nftContract, tokenId, salePrice)

getRoyalty(nftContract, tokenId, salePrice, ext) ==
    IF /\ ext.supports
       /\ ~ext.reverts
       /\ ext.recipient # ZERO
       /\ RegistryRoyaltyAmount(ext, salePrice) <= salePrice \div 10
    THEN [recipient |-> ext.recipient, amount |-> RegistryRoyaltyAmount(ext, salePrice)]
    ELSE StoredRoyalty(nftContract, tokenId, salePrice)

\* getRoyalty of a RoyaltyEngine in which no record has been written
getRoyaltyNoRecords(salePrice, ext) ==
    IF /\ ext.supports
       /\ ~ext.reverts
       /\ ext.recipient # ZERO
       /\ RegistryRoyaltyAmount(ext, salePrice) <= salePrice \div 10
    THEN [recipient |-> ext.recipient, amount |-> RegistryRoyaltyAmount(ext, salePrice)]
    ELSE [recipient |-> ZERO, amount |-> 0]

\* getRoyaltyPercentage: a layer counts when it has a recipient or a percentage
getRoyaltyPercentage(nftContract, tokenId) ==
    IF TokenRoyalty(nftContract, tokenId).recipient # ZERO
          \/ TokenRoyalty(nftContract, tokenId).percentage > 0
    THEN TokenRoyalty(nftContract, tokenId).percentage
    ELSE IF ContractRoyalty(nftContract).recipient # ZERO
               \/ ContractRoyalty(nftContract).percentage > 0
    THEN ContractRoyalty(nftContract).percentage
    ELSE defaultRoyalty.percentage

\* getRoyaltyRecipient: a layer counts when it has a recipient
getRoyaltyRecipient(nftContract, tokenId) ==
    IF TokenRoyalty(nftContract, tokenId).recipient # ZERO
    THEN TokenRoyalty(nftContract, tokenId).recipient
    ELSE IF ContractRoyalty(nftContract).recipient # ZERO
    THEN ContractRoyalty(nftContract).recipient
    ELSE defaultRoyalty.recipient

hasContractRoyalty(nftContract) ==
    ContractRoyalty(nftContract).recipient # ZERO \/ ContractRoyalty(nftContract).percentage > 0

hasTokenRoyalty(nftContract, tokenId) ==
    \/ TokenRoyalty(nftContract, tokenId).recipient # ZERO
    \/ TokenRoyalty(nftContract, tokenId).percentage > 0

\* _isContractOwner with a failed owner() call counted as a match
IsContractOwnerOnError(nftContract, account) == nftContract # NFT \/ RegistryOwner = account

\* _isContractOwner
IsContractOwner(nftContract, account) == nftContract = NFT /\ RegistryOwner = account

\* _isTokenOwner
IsTokenOwner(nftContract, tokenId, account) ==
    nftContract = NFT /\ Exists(tokenId) /\ ownerOf[tokenId] = account

\* the checks on a record without the one on its recipient
ValidRoyaltyAnyRecipient(recipient, percentage) == percentage <= MAX_ROYALTY_PERCENTAGE

\* the checks every royalty setter makes on the record it is given
ValidRoyalty(recipient, percentage) ==
    /\ percentage <= MAX_ROYALTY_PERCENTAGE
    /\ (percentage > 0 => recipient # ZERO)

setDefaultRoyalty(caller, recipient, percentage) ==
    /\ caller = OWNER
    /\ ValidRoyalty(recipient, percentage)
    /\ defaultRoyalty' = [recipient |-> recipient, percentage |-> percentage]
    /\ UNCHANGED <<now, callOut, balance, registryVars, escrowState, marketVars, marketTotals,
                   marketConfig, contractRoyalties, tokenRoyalties>>

setContractRoyalty(caller, nftContract, recipient, percentage) ==
    /\ (caller = OWNER \/ IsContractOwner(nftContract, caller))
    /\ ValidRoyalty(recipient, percentage)
    /\ contractRoyalties' = Put(contractRoyalties, nftContract,
          [recipient |-> recipient, percentage |-> percentage])
    /\ UNCHANGED <<now, callOut, balance, registryVars, escrowState, marketVars, marketTotals,
                   marketConfig, defaultRoyalty, tokenRoyalties>>

setTokenRoyalty(caller, nftContract, tokenId, recipient, percentage) ==
    /\ \/ caller = OWNER
       \/ IsTokenOwner(nftContract, tokenId, caller)
       \/ IsContractOwner(nftContract, caller)
    /\ ValidRoyalty(recipient, percentage)
    /\ tokenRoyalties' = Put(tokenRoyalties, <<nftContract, tokenId>>,
          [recipient |-> recipient, percentage |-> percentage])
    /\ UNCHANGED <<now, callOut, balance, registryVars, escrowState, marketVars, marketTotals,
                   marketConfig, defaultRoyalty, contractRoyalties>>

\* the loop of batchSetContractRoyalties from entry i on
RECURSIVE BatchApplied(_, _, _, _, _)
BatchApplied(map, nftContracts, recipients, percentages, i) ==
    IF i > Len(nftContracts) THEN map
    ELSE BatchApplied(Put(map, nftContracts[i],
                          [recipient |-> recipients[i], percentage |-> percentages[i]]),
                      nftContracts, recipients, percentages, i + 1)

batchSetContractRoyalties(caller, nftContracts, recipients, percentages) ==
    /\ caller = OWNER
    /\ Len(nftContracts) = Len(recipients)
    /\ Len(recipients) = Len(percentages)
    /\ \A i \in 1..Len(nftContracts) : ValidRoyalty(recipients[i], percentages[i])
    /\ contractRoyalties' = BatchApplied(contractRoyalties, nftContracts, recipients,
                                         percentages, 1)
    /\ UNCHANGED <<now, callOut, balance, registryVars, escrowState, marketVars, marketTotals,
                   marketConfig, defaultRoyalty, tokenRoyalties>>

removeContractRoyalty(caller, nftContract) ==
    /\ (caller = OWNER \/ IsContractOwner(nftContract, caller))
    /\ contractRoyalties' = Put(contractRoyalties, nftContract, EmptyRoyalty)
    /\ UNCHANGED <<now, callOut, balance, registryVars, escrowState, marketVars, marketTotals,
                   marketConfig, defaultRoyalty, tokenRoyalties>>

\* removeTokenRoyalty that clears the recipient and leaves the percentage
removeTokenRoyaltyRecipientOnly(caller, nftContract, tokenId) ==
    /\ \/ caller = OWNER
       \/ IsTokenOwner(nftContract, tokenId, caller)
       \/ IsContractOwner(nftContract, caller)
    /\ tokenRoyalties' = Put(tokenRoyalties, <<nftContract, tokenId>>,
                             [TokenRoyalty(nftContract, tokenId) EXCEPT !.recipient = ZERO])
    /\ UNCHANGED <<now, callOut, balance, registryVars, escrowState, marketVars, marketTotals,
                   marketConfig, defaultRoyalty, contractRoyalties>>

removeTokenRoyalty(caller, nftContract, tokenId) ==
    /\ \/ caller = OWNER
       \/ IsTokenOwner(nftContract, tokenId, caller)
       \/ IsContractOwner(nftContract, caller)
    /\ tokenRoyalties' = Put(tokenRoyalties, <<nftContract, tokenId>>, EmptyRoyalty)
    /\ UNCHANGED <<now, callOut, balance, registryVars, escrowState, marketVars, marketTotals,
                   marketConfig, defaultRoyalty, contractRoyalties>>

(***************************************************************************)
(* ERC721Marketplace                                                       *)
(***************************************************************************)
\* keccak256(abi.encodePacked(nftContract, tokenId, block.timestamp)): the
\* hash is taken to be injective, so the id is the hashed tuple itself
ListingIdOf(nftContract, tokenId, timestamp) == <<nftContract, tokenId, timestamp>>

\* keccak256(abi.encodePacked(msg.sender, nftContract, tokenId, block.timestamp))
OfferIdOf(sender, nftContract, tokenId, timestamp) == <<sender, nftContract, tokenId, timestamp>>

\* modifier validListing
validListing(listingId) ==
    /\ ListingAt(listingId).active
    /\ ListingAt(listingId).expiresAt > now

\* modifier validOffer
validOffer(offerId) ==
    /\ OfferAt(offerId).active
    /\ OfferAt(offerId).expiresAt > now

\* royaltyEngine.getRoyalty(nftContract, tokenId, salePrice) returns: the
\* address the marketplace holds as its royalty engine is a RoyaltyEngine
RoyaltyEngineAnswers == royaltyEngine \in RoyaltyEngines

\* what the marketplace's royalty engine answers for a sale
SaleRoyalty(nftContract, tokenId, salePrice, ext) ==
    IF royaltyEngine = ROYALTY
    THEN getRoyalty(nftContract, tokenId, salePrice, ext)
    ELSE getRoyaltyNoRecords(salePrice, ext)

\* marketplaceFee = (price * marketplaceFeePercentage) / 10000
MarketFee(price) == (price * marketplaceFeePercentage) \div 10000

\* the seller's amount with the royalty left in it
SellerAmountWithRoyalty(price, royaltyAmount) == price - MarketFee(price)

\* sellerAmount = price - marketplaceFee - royaltyAmount
SellerAmount(price, royaltyAmount) == price - MarketFee(price) - royaltyAmount

\* the three payments of a sale, made out of the marketplace's balance
PaySale(bal, seller, price, royalty) ==
    LET b1 == Pay(bal, MARKET, seller, SellerAmount(price, royalty.amount))
        b2 == IF MarketFee(price) > 0
              THEN Pay(b1, MARKET, marketFeeRecipient, MarketFee(price))
              ELSE b1
    IN  IF royalty.amount > 0 /\ royalty.recipient # ZERO
        THEN Pay(b2, MARKET, royalty.recipient, royalty.amount)
        ELSE b2

\* the three payments of a sale are all accepted
CanPaySale(seller, price, royalty) ==
    /\ CanReceive(seller)
    /\ (MarketFee(price) > 0 => CanReceive(marketFeeRecipient))
    /\ ((royalty.amount > 0 /\ royalty.recipient # ZERO) => CanReceive(royalty.recipient))

\* _cancelListing: the listings and the token index afterwards
CancelledListings(lst, listingId) ==
    Put(lst, listingId, [Get(lst, listingId, EmptyListing) EXCEPT !.active = FALSE])

ClearedTokenIndex(listingId) ==
    Put(tokenToListingId,
        <<ListingAt(listingId).nftContract, ListingAt(listingId).tokenId>>, ZeroId)

\* the require statements and modifiers of listItem
listItemRequires(caller, nftContract, tokenId, price, duration) ==
    /\ ~MarketEntered
    /\ ~marketPaused
    /\ nftContract \in DOMAIN marketWhitelisted
    /\ marketWhitelisted[nftContract]
    /\ price > 0
    /\ duration > 0
    /\ IsRegistry(nftContract)
    /\ Exists(tokenId)
    /\ ownerOf[tokenId] = caller
    /\ EngineApproved(MARKET, caller, tokenId)
    /\ ~ListingAt(ListingIdOf(nftContract, tokenId, now)).active

\* listItem without the cancellation of the asset's existing listing
listItemKeepsPrior(caller, nftContract, tokenId, price, duration) ==
    /\ listItemRequires(caller, nftContract, tokenId, price, duration)
    /\ listings' = Put(listings, ListingIdOf(nftContract, tokenId, now),
          [seller |-> caller, nftContract |-> nftContract, tokenId |-> tokenId,
           price |-> price, createdAt |-> now, expiresAt |-> now + duration,
           active |-> TRUE])
    /\ tokenToListingId' = Put(tokenToListingId, <<nftContract, tokenId>>,
                                ListingIdOf(nftContract, tokenId, now))
    /\ userListings' = Push(userListings, caller, ListingIdOf(nftContract, tokenId, now))
    /\ totalListings' = totalListings + 1
    /\ UNCHANGED <<now, callOut, balance, registryVars, escrowState, offers, userOffers,
                   totalSales, totalVolume, marketConfig, royaltyVars>>

listItem(caller, nftContract, tokenId, price, duration) ==
    /\ listItemRequires(caller, nftContract, tokenId, price, duration)
    /\ LET listingId == ListingIdOf(nftContract, tokenId, now)
           existingListingId == TokenListing(nftContract, tokenId)
           cancelled == IF existingListingId # ZeroId /\ ListingAt(existingListingId).active
                        THEN CancelledListings(listings, existingListingId)
                        ELSE listings
       IN  /\ listings' = Put(cancelled, listingId,
                 [seller |-> caller, nftContract |-> nftContract, tokenId |-> tokenId,
                  price |-> price, createdAt |-> now, expiresAt |-> now + duration,
                  active |-> TRUE])
           /\ tokenToListingId' = Put(tokenToListingId, <<nftContract, tokenId>>, listingId)
           /\ userListings' = Push(userListings, caller, listingId)
    /\ totalListings' = totalListings + 1
    /\ UNCHANGED <<now, callOut, balance, registryVars, escrowState, offers, userOffers,
                   totalSales, totalVolume, marketConfig, royaltyVars>>

\* buyItem without the active check of validListing
buyItemOnInactive(caller, listingId, value) ==
    /\ ~marketPaused
    /\ ListingAt(listingId).expiresAt > now
    /\ value >= ListingAt(listingId).price
    /\ caller # ListingAt(listingId).seller
    /\ IsRegistry(ListingAt(listingId).nftContract)
    /\ ownerOf[ListingAt(listingId).tokenId] = ListingAt(listingId).seller

\* buyItem without the check that the caller is not the seller
buyItemBySeller(caller, listingId, value) ==
    /\ ~marketPaused
    /\ validListing(listingId)
    /\ value >= ListingAt(listingId).price
    /\ IsRegistry(ListingAt(listingId).nftContract)
    /\ ownerOf[ListingAt(listingId).tokenId] = ListingAt(listingId).seller

\* buyItem without the refund of what was sent above the price
buyItemKeepsExcess(caller, listingId, value, ext) ==
    /\ CanPay(balance, caller, value)
    /\ ~marketPaused
    /\ validListing(listingId)
    /\ value >= ListingAt(listingId).price
    /\ caller # ListingAt(listingId).seller
    /\ IsRegistry(ListingAt(listingId).nftContract)
    /\ ownerOf[ListingAt(listingId).tokenId] = ListingAt(listingId).seller
    /\ LET listing == ListingAt(listingId)
           royalty == SaleRoyalty(listing.nftContract, listing.tokenId, listing.price, ext)
       IN  /\ RoyaltyEngineAnswers
           /\ SellerAmount(listing.price, royalty.amount) >= 0
           /\ CanTransferToken(MARKET, listing.seller, caller, listing.tokenId)
           /\ CanPaySale(listing.seller, listing.price, royalty)
           /\ listings' = CancelledListings(listings, listingId)
           /\ tokenToListingId' = ClearedTokenIndex(listingId)
           /\ ownerOf' = [ownerOf EXCEPT ![listing.tokenId] = caller]
           /\ tokenApproval' = [tokenApproval EXCEPT ![listing.tokenId] = ZERO]
           /\ balance' = PaySale(Pay(balance, caller, MARKET, value),
                                 listing.seller, listing.price, royalty)
           /\ totalSales' = totalSales + 1
           /\ totalVolume' = totalVolume + listing.price
    /\ UNCHANGED <<now, callOut, operatorApproval, registryPaused, mintSettings, escrowState, offers,
                   userListings, userOffers, totalListings, marketConfig, royaltyVars>>

\* the require statements and modifiers of buyItem
buyItemRequires(caller, listingId, value) ==
    /\ ~MarketEntered
    /\ ~marketPaused
    /\ validListing(listingId)
    /\ value >= ListingAt(listingId).price
    /\ caller # ListingAt(listingId).seller
    /\ IsRegistry(ListingAt(listingId).nftContract)
    /\ ownerOf[ListingAt(listingId).tokenId] = ListingAt(listingId).seller

\* buyItem going on although the asset transfer or a payment was refused
buyItemIgnoresRefusal(caller, listingId, value, ext) ==
    /\ CanPay(balance, caller, value)
    /\ buyItemRequires(caller, listingId, value)
    /\ LET listing == ListingAt(listingId)
           royalty == SaleRoyalty(listing.nftContract, listing.tokenId, listing.price, ext)
           received == Pay(balance, caller, MARKET, value)
           paid == PaySale(received, listing.seller, listing.price, royalty)
       IN  /\ RoyaltyEngineAnswers
           /\ SellerAmount(listing.price, royalty.amount) >= 0
           /\ listings' = CancelledListings(listings, listingId)
           /\ tokenToListingId' = ClearedTokenIndex(listingId)
           /\ ownerOf' = [ownerOf EXCEPT ![listing.tokenId] = caller]
           /\ tokenApproval' = [tokenApproval EXCEPT ![listing.tokenId] = ZERO]
           /\ balance' = IF value > listing.price
                         THEN Pay(paid, MARKET, caller, value - listing.price)
                         ELSE paid
           /\ totalSales' = totalSales + 1
           /\ totalVolume' = totalVolume + listing.price
    /\ UNCHANGED <<now, callOut, operatorApproval, registryPaused, mintSettings, escrowState, offers,
                   userListings, userOffers, totalListings, marketConfig, royaltyVars>>

buyItem(caller, listingId, value, ext) ==
    /\ CanPay(balance, caller, value)
    /\ buyItemRequires(caller, listingId, value)
    /\ LET listing == ListingAt(listingId)
           royalty == SaleRoyalty(listing.nftContract, listing.tokenId, listing.price, ext)
           received == Pay(balance, caller, MARKET, value)
           paid == PaySale(received, listing.seller, listing.price, royalty)
       IN  /\ RoyaltyEngineAnswers
           /\ SellerAmount(listing.price, royalty.amount) >= 0
           /\ CanTransferToken(MARKET, listing.seller, caller, listing.tokenId)
           /\ CanPaySale(listing.seller, listing.price, royalty)
           /\ (value > listing.price => CanReceive(caller))
           /\ listings' = CancelledListings(listings, listingId)
           /\ tokenToListingId' = ClearedTokenIndex(listingId)
           /\ ownerOf' = [ownerOf EXCEPT ![listing.tokenId] = caller]
           /\ tokenApproval' = [tokenApproval EXCEPT ![listing.tokenId] = ZERO]
           /\ balance' = IF value > listing.price
                         THEN Pay(paid, MARKET, caller, value - listing.price)
                         ELSE paid
           /\ totalSales' = totalSales + 1
           /\ totalVolume' = totalVolume + listing.price
    /\ UNCHANGED <<now, callOut, operatorApproval, registryPaused, mintSettings, escrowState, offers,
                   userListings, userOffers, totalListings, marketConfig, royaltyVars>>

\* the require statements of cancelListing
cancelListingRequires(caller, listingId) ==
    /\ (ListingAt(listingId).seller = caller \/ caller = OWNER)
    /\ ListingAt(listingId).active

cancelListing(caller, listingId) ==
    /\ cancelListingRequires(caller, listingId)
    /\ listings' = CancelledListings(listings, listingId)
    /\ tokenToListingId' = ClearedTokenIndex(listingId)
    /\ UNCHANGED <<now, callOut, balance, registryVars, escrowState, offers, userListings,
                   userOffers, marketTotals, marketConfig, royaltyVars>>

\* updateListing open to every caller
updateListingByAnyone(caller, listingId, newPrice) ==
    /\ validListing(listingId)
    /\ newPrice > 0

\* the require statements and modifiers of updateListing
updateListingRequires(caller, listingId, newPrice) ==
    /\ validListing(listingId)
    /\ ListingAt(listingId).seller = caller
    /\ newPrice > 0

updateListing(caller, listingId, newPrice) ==
    /\ updateListingRequires(caller, listingId, newPrice)
    /\ listings' = Put(listings, listingId, [ListingAt(listingId) EXCEPT !.price = newPrice])
    /\ UNCHANGED <<now, callOut, balance, registryVars, escrowState, offers, tokenToListingId,
                   userListings, userOffers, marketTotals, marketConfig, royaltyVars>>

\* the require statements and modifiers of createOffer
\* createOffer without the onlyWhitelistedContract modifier
createOfferAnyContract(caller, nftContract, tokenId, duration, value) ==
    /\ ~marketPaused
    /\ value > 0
    /\ duration > 0

createOfferRequires(caller, nftContract, tokenId, duration, value) ==
    /\ ~MarketEntered
    /\ ~marketPaused
    /\ nftContract \in DOMAIN marketWhitelisted
    /\ marketWhitelisted[nftContract]
    /\ value > 0
    /\ duration > 0

createOffer(caller, nftContract, tokenId, duration, value) ==
    /\ CanPay(balance, caller, value)
    /\ createOfferRequires(caller, nftContract, tokenId, duration, value)
    /\ offers' = Put(offers, OfferIdOf(caller, nftContract, tokenId, now),
          [buyer |-> caller, nftContract |-> nftContract, tokenId |-> tokenId,
           amount |-> value, createdAt |-> now, expiresAt |-> now + duration,
           active |-> TRUE])
    /\ userOffers' = Push(userOffers, caller, OfferIdOf(caller, nftContract, tokenId, now))
    /\ balance' = Pay(balance, caller, MARKET, value)
    /\ UNCHANGED <<now, callOut, registryVars, escrowState, listings, tokenToListingId,
                   userListings, marketTotals, marketConfig, royaltyVars>>

\* the require statements and modifiers of acceptOffer
acceptOfferRequires(caller, offerId) ==
    /\ ~MarketEntered
    /\ ~marketPaused
    /\ validOffer(offerId)
    /\ IsRegistry(OfferAt(offerId).nftContract)
    /\ Exists(OfferAt(offerId).tokenId)
    /\ ownerOf[OfferAt(offerId).tokenId] = caller
    /\ EngineApproved(MARKET, caller, OfferAt(offerId).tokenId)

\* acceptOffer without the cancellation of the asset's listing
acceptOfferKeepsListing(caller, offerId, ext) ==
    /\ acceptOfferRequires(caller, offerId)
    /\ LET offer == OfferAt(offerId)
           royalty == SaleRoyalty(offer.nftContract, offer.tokenId, offer.amount, ext)
       IN  /\ RoyaltyEngineAnswers
           /\ SellerAmount(offer.amount, royalty.amount) >= 0
           /\ CanTransferToken(MARKET, caller, offer.buyer, offer.tokenId)
           /\ CanPay(balance, MARKET, offer.amount)
           /\ CanPaySale(caller, offer.amount, royalty)
           /\ offers' = Put(offers, offerId, [offer EXCEPT !.active = FALSE])
           /\ ownerOf' = [ownerOf EXCEPT ![offer.tokenId] = offer.buyer]
           /\ tokenApproval' = [tokenApproval EXCEPT ![offer.tokenId] = ZERO]
           /\ balance' = PaySale(balance, caller, offer.amount, royalty)
           /\ totalSales' = totalSales + 1
           /\ totalVolume' = totalVolume + offer.amount
    /\ UNCHANGED <<now, callOut, operatorApproval, registryPaused, mintSettings, escrowState, listings,
                   tokenToListingId, userListings, userOffers, totalListings, marketConfig,
                   royaltyVars>>

\* acceptOffer that counts the sale and leaves its amount out of the volume
acceptOfferOffTheBooks(caller, offerId, ext) ==
    /\ acceptOfferRequires(caller, offerId)
    /\ LET offer == OfferAt(offerId)
           royalty == SaleRoyalty(offer.nftContract, offer.tokenId, offer.amount, ext)
           existingListingId == TokenListing(offer.nftContract, offer.tokenId)
       IN  /\ RoyaltyEngineAnswers
           /\ SellerAmount(offer.amount, royalty.amount) >= 0
           /\ CanTransferToken(MARKET, caller, offer.buyer, offer.tokenId)
           /\ CanPay(balance, MARKET, offer.amount)
           /\ CanPaySale(caller, offer.amount, royalty)
           /\ offers' = Put(offers, offerId, [offer EXCEPT !.active = FALSE])
           /\ ownerOf' = [ownerOf EXCEPT ![offer.tokenId] = offer.buyer]
           /\ tokenApproval' = [tokenApproval EXCEPT ![offer.tokenId] = ZERO]
           /\ balance' = PaySale(balance, caller, offer.amount, royalty)
           /\ IF existingListingId # ZeroId /\ ListingAt(existingListingId).active
              THEN /\ listings' = CancelledListings(listings, existingListingId)
                   /\ tokenToListingId' = ClearedTokenIndex(existingListingId)
              ELSE UNCHANGED <<listings, tokenToListingId>>
           /\ totalSales' = totalSales + 1
           /\ totalVolume' = totalVolume
    /\ UNCHANGED <<now, callOut, operatorApproval, registryPaused, mintSettings, escrowState, userListings,
                   userOffers, totalListings, marketConfig, royaltyVars>>

acceptOffer(caller, offerId, ext) ==
    /\ acceptOfferRequires(caller, offerId)
    /\ LET offer == OfferAt(offerId)
           royalty == SaleRoyalty(offer.nftContract, offer.tokenId, offer.amount, ext)
           existingListingId == TokenListing(offer.nftContract, offer.tokenId)
       IN  /\ RoyaltyEngineAnswers
           /\ SellerAmount(offer.amount, royalty.amount) >= 0
           /\ CanTransferToken(MARKET, caller, offer.buyer, offer.tokenId)
           /\ CanPay(balance, MARKET, offer.amount)
           /\ CanPaySale(caller, offer.amount, royalty)
           /\ offers' = Put(offers, offerId, [offer EXCEPT !.active = FALSE])
           /\ ownerOf' = [ownerOf EXCEPT ![offer.tokenId] = offer.buyer]
           /\ tokenApproval' = [tokenApproval EXCEPT ![offer.tokenId] = ZERO]
           /\ balance' = PaySale(balance, caller, offer.amount, royalty)
           /\ IF existingListingId # ZeroId /\ ListingAt(existingListingId).active
              THEN /\ listings' = CancelledListings(listings, existingListingId)
                   /\ tokenToListingId' = ClearedTokenIndex(existingListingId)
              ELSE UNCHANGED <<listings, tokenToListingId>>
           /\ totalSales' = totalSales + 1
           /\ totalVolume' = totalVolume + offer.amount
    /\ UNCHANGED <<now, callOut, operatorApproval, registryPaused, mintSettings, escrowState, userListings,
                   userOffers, totalListings, marketConfig, royaltyVars>>

\* the checks of cancelOffer without the one on the caller
cancelOfferByAnyone(caller, offerId) == validOffer(offerId)

\* the require statements and modifiers of cancelOffer
cancelOfferRequires(caller, offerId) ==
    /\ validOffer(offerId)
    /\ (OfferAt(offerId).buyer = caller \/ caller = OWNER)

cancelOffer(caller, offerId) ==
    /\ cancelOfferRequires(caller, offerId)
    /\ CanPay(balance, MARKET, OfferAt(offerId).amount)
    /\ CanReceive(OfferAt(offerId).buyer)
    /\ offers' = Put(offers, offerId, [OfferAt(offerId) EXCEPT !.active = FALSE])
    /\ balance' = Pay(balance, MARKET, OfferAt(offerId).buyer, OfferAt(offerId).amount)
    /\ UNCHANGED <<now, callOut, registryVars, escrowState, listings, tokenToListingId,
                   userListings, userOffers, marketTotals, marketConfig, royaltyVars>>

marketSetContractWhitelist(caller, nftContract, whitelisted) ==
    /\ caller = OWNER
    /\ marketWhitelisted' = Put(marketWhitelisted, nftContract, whitelisted)
    /\ UNCHANGED <<now, callOut, balance, registryVars, escrowState, marketVars, marketTotals,
                   marketplaceFeePercentage, marketFeeRecipient, marketPaused, royaltyEngine,
                   royaltyVars>>

\* setMarketplaceFee without its cap
setMarketplaceFeeUncapped(caller, newFeePercentage) ==
    /\ caller = OWNER
    /\ marketplaceFeePercentage' = newFeePercentage
    /\ UNCHANGED <<now, callOut, balance, registryVars, escrowState, marketVars, marketTotals,
                   marketFeeRecipient, marketWhitelisted, marketPaused, royaltyEngine,
                   royaltyVars>>

setMarketplaceFee(caller, newFeePercentage) ==
    /\ caller = OWNER
    /\ newFeePercentage <= MAX_FEE_PERCENTAGE
    /\ marketplaceFeePercentage' = newFeePercentage
    /\ UNCHANGED <<now, callOut, balance, registryVars, escrowState, marketVars, marketTotals,
                   marketFeeRecipient, marketWhitelisted, marketPaused, royaltyEngine,
                   royaltyVars>>

marketSetFeeRecipient(caller, newFeeRecipient) ==
    /\ caller = OWNER
    /\ newFeeRecipient # ZERO
    /\ marketFeeRecipient' = newFeeRecipient
    /\ UNCHANGED <<now, callOut, balance, registryVars, escrowState, marketVars, marketTotals,
                   marketplaceFeePercentage, marketWhitelisted, marketPaused, royaltyEngine,
                   royaltyVars>>

\* setRoyaltyEngine
setRoyaltyEngine(caller, newRoyaltyEngine) ==
    /\ caller = OWNER
    /\ newRoyaltyEngine # ZERO
    /\ royaltyEngine' = newRoyaltyEngine
    /\ UNCHANGED <<now, callOut, balance, registryVars, escrowState, marketVars, marketTotals,
                   marketplaceFeePercentage, marketFeeRecipient, marketWhitelisted,
                   marketPaused, royaltyVars>>

marketPause(caller) ==
    /\ caller = OWNER
    /\ ~marketPaused
    /\ marketPaused' = TRUE
    /\ UNCHANGED <<now, callOut, balance, registryVars, escrowState, marketVars, marketTotals,
                   marketplaceFeePercentage, marketFeeRecipient, marketWhitelisted, royaltyEngine,
                   royaltyVars>>

marketUnpause(caller) ==
    /\ caller = OWNER
    /\ marketPaused
    /\ marketPaused' = FALSE
    /\ UNCHANGED <<now, callOut, balance, registryVars, escrowState, marketVars, marketTotals,
                   marketplaceFeePercentage, marketFeeRecipient, marketWhitelisted, royaltyEngine,
                   royaltyVars>>

marketEmergencyWithdraw(caller) ==
    /\ caller = OWNER
    /\ marketPaused
    /\ balance' = Pay(balance, MARKET, OWNER, balance[MARKET])
    /\ UNCHANGED <<now, callOut, registryVars, escrowState, marketState>>

(***************************************************************************)
(* Call-outs.  safeTransferFrom calls onERC721Received on a recipient that *)
(* is a contract, and the recipient may call the registry and the engines  *)
(* from there.  The actions below run buyItem, acceptOffer, cancelEscrow,  *)
(* approveEscrow and resolveDispute in two parts: up to the asset          *)
(* transfer, and from the return of the recipient's callback to the end.   *)
(* The first part keeps the state the call started in and the values the   *)
(* code holds in local variables; the second part makes the payments out   *)
(* of the state the callback left.  When the callback reverts or a payment *)
(* is refused, the whole call is undone, with everything done during the   *)
(* callback.  A call made during a callback may call out in turn.  Where   *)
(* the recipients are accounts without code, or the engines themselves,    *)
(* whose onERC721Received does nothing, the one-step actions above are the *)
(* whole call.                                                             *)
(***************************************************************************)
\* the state a call started in, to which a revert takes it back
Saved ==
    [balance |-> balance, ownerOf |-> ownerOf, tokenApproval |-> tokenApproval,
     operatorApproval |-> operatorApproval, registryPaused |-> registryPaused,
     maxSupply |-> maxSupply, mintPrice |-> mintPrice, maxMintPerTx |-> maxMintPerTx,
     publicMintEnabled |-> publicMintEnabled,
     escrowTransactions |-> escrowTransactions, nextEscrowId |-> nextEscrowId,
     userEscrows |-> userEscrows, escrowFeePercentage |-> escrowFeePercentage,
     escrowFeeRecipient |-> escrowFeeRecipient, disputeResolver |-> disputeResolver,
     escrowWhitelisted |-> escrowWhitelisted, escrowPaused |-> escrowPaused,
     listings |-> listings, offers |-> offers, tokenToListingId |-> tokenToListingId,
     userListings |-> userListings, userOffers |-> userOffers,
     marketplaceFeePercentage |-> marketplaceFeePercentage,
     marketFeeRecipient |-> marketFeeRecipient, marketWhitelisted |-> marketWhitelisted,
     marketPaused |-> marketPaused, royaltyEngine |-> royaltyEngine,
     totalListings |-> totalListings, totalSales |-> totalSales, totalVolume |-> totalVolume,
     defaultRoyalty |-> defaultRoyalty, contractRoyalties |-> contractRoyalties,
     tokenRoyalties |-> tokenRoyalties]

\* a call that is waiting for the callback of `recipient`
CallFrame(op, recipient, sender, id, escrowId, value, fee, sellerAmount, royalty) ==
    [op |-> op, recipient |-> recipient, sender |-> sender, id |-> id, escrowId |-> escrowId,
     value |-> value, fee |-> fee, sellerAmount |-> sellerAmount, royalty |-> royalty,
     tokenId |-> 0, cost |-> 0, pending |-> <<>>, saved |-> Saved]

\* a mint call that is waiting for the callback of `recipient`, to whom
\* _safeMint has given tokenId: the ether sent with the call, the total cost
\* batchMint computed before its loop and the recipients of the ids still to
\* be handed out
MintFrame(op, recipient, sender, value, cost, pending, tokenId) ==
    [op |-> op, recipient |-> recipient, sender |-> sender, id |-> ZeroId, escrowId |-> 0,
     value |-> value, fee |-> 0, sellerAmount |-> 0,
     royalty |-> [recipient |-> ZERO, amount |-> 0],
     tokenId |-> tokenId, cost |-> cost, pending |-> pending, saved |-> Saved]

\* the calls still waiting once the innermost one has ended
Returned == SubSeq(callOut, 1, Len(callOut) - 1)

\* payable(to).transfer(amount) for each payment in turn, out of the balance
\* of `from`
RECURSIVE PaidAll(_, _, _)
PaidAll(bal, from, payments) ==
    IF Len(payments) = 0 THEN bal
    ELSE PaidAll(Pay(bal, from, Head(payments).to, Head(payments).amount), from,
                 Tail(payments))

\* every one of the payments goes through
RECURSIVE CanPayAll(_, _, _)
CanPayAll(bal, from, payments) ==
    IF Len(payments) = 0 THEN TRUE
    ELSE /\ CanPay(bal, from, Head(payments).amount)
         /\ CanReceive(Head(payments).to)
         /\ CanPayAll(Pay(bal, from, Head(payments).to, Head(payments).amount), from,
                      Tail(payments))

\* the payments of a sale in the order of the code: the amounts are the
\* locals computed before the asset transfer, the fee recipient is read when
\* the payment is made
SalePayments(seller, sellerAmount, fee, royalty) ==
    <<[to |-> seller, amount |-> sellerAmount]>>
    \o (IF fee > 0 THEN <<[to |-> marketFeeRecipient, amount |-> fee]>> ELSE <<>>)
    \o (IF royalty.amount > 0 /\ royalty.recipient # ZERO
        THEN <<[to |-> royalty.recipient, amount |-> royalty.amount]>>
        ELSE <<>>)

\* the payments of _completeEscrow
CompletionPayments(seller, sellerAmount, fee) ==
    <<[to |-> seller, amount |-> sellerAmount]>>
    \o (IF fee > 0 THEN <<[to |-> escrowFeeRecipient, amount |-> fee]>> ELSE <<>>)

\* the innermost waiting call is undone as a whole: the recipient's callback
\* reverted, or a payment that follows the asset transfer was refused.  All
\* state is as it was when the call started.
callOutRevert ==
    /\ Len(callOut) > 0
    /\ balance' = Frame.saved.balance
    /\ ownerOf' = Frame.saved.ownerOf
    /\ tokenApproval' = Frame.saved.tokenApproval
    /\ operatorApproval' = Frame.saved.operatorApproval
    /\ registryPaused' = Frame.saved.registryPaused
    /\ maxSupply' = Frame.saved.maxSupply
    /\ mintPrice' = Frame.saved.mintPrice
    /\ maxMintPerTx' = Frame.saved.maxMintPerTx
    /\ publicMintEnabled' = Frame.saved.publicMintEnabled
    /\ escrowTransactions' = Frame.saved.escrowTransactions
    /\ nextEscrowId' = Frame.saved.nextEscrowId
    /\ userEscrows' = Frame.saved.userEscrows
    /\ escrowFeePercentage' = Frame.saved.escrowFeePercentage
    /\ escrowFeeRecipient' = Frame.saved.escrowFeeRecipient
    /\ disputeResolver' = Frame.saved.disputeResolver
    /\ escrowWhitelisted' = Frame.saved.escrowWhitelisted
    /\ escrowPaused' = Frame.saved.escrowPaused
    /\ listings' = Frame.saved.listings
    /\ offers' = Frame.saved.offers
    /\ tokenToListingId' = Frame.saved.tokenToListingId
    /\ userListings' = Frame.saved.userListings
    /\ userOffers' = Frame.saved.userOffers
    /\ marketplaceFeePercentage' = Frame.saved.marketplaceFeePercentage
    /\ marketFeeRecipient' = Frame.saved.marketFeeRecipient
    /\ marketWhitelisted' = Frame.saved.marketWhitelisted
    /\ marketPaused' = Frame.saved.marketPaused
    /\ royaltyEngine' = Frame.saved.royaltyEngine
    /\ totalListings' = Frame.saved.totalListings
    /\ totalSales' = Frame.saved.totalSales
    /\ totalVolume' = Frame.saved.totalVolume
    /\ defaultRoyalty' = Frame.saved.defaultRoyalty
    /\ contractRoyalties' = Frame.saved.contractRoyalties
    /\ tokenRoyalties' = Frame.saved.tokenRoyalties
    /\ callOut' = Returned
    /\ UNCHANGED now

\* buyItem up to nft.safeTransferFrom(listing.seller, msg.sender, tokenId)
buyItemCallOut(caller, listingId, value, ext) ==
    /\ CanPay(balance, caller, value)
    /\ buyItemRequires(caller, listingId, value)
    /\ LET listing == ListingAt(listingId)
           royalty == SaleRoyalty(listing.nftContract, listing.tokenId, listing.price, ext)
       IN  /\ RoyaltyEngineAnswers
           /\ SellerAmount(listing.price, royalty.amount) >= 0
           /\ CanTransferToken(MARKET, listing.seller, caller, listing.tokenId)
           /\ listings' = CancelledListings(listings, listingId)
           /\ tokenToListingId' = ClearedTokenIndex(listingId)
           /\ ownerOf' = [ownerOf EXCEPT ![listing.tokenId] = caller]
           /\ tokenApproval' = [tokenApproval EXCEPT ![listing.tokenId] = ZERO]
           /\ balance' = Pay(balance, caller, MARKET, value)
           /\ callOut' = Append(callOut,
                 CallFrame("buyItem", caller, caller, listingId, 0, value,
                           MarketFee(listing.price),
                           SellerAmount(listing.price, royalty.amount), royalty))
    /\ UNCHANGED <<now, operatorApproval, registryPaused, mintSettings, escrowState, offers, userListings,
                   userOffers, marketTotals, marketConfig, royaltyVars>>

\* buyItem from the payments to its end
buyItemReturn ==
    /\ Frame.op = "buyItem"
    /\ LET listing == ListingAt(Frame.id)
           payments ==
               SalePayments(listing.seller, Frame.sellerAmount, Frame.fee, Frame.royalty)
               \o (IF Frame.value > listing.price
                   THEN <<[to |-> Frame.sender, amount |-> Frame.value - listing.price]>>
                   ELSE <<>>)
       IN  /\ CanPayAll(balance, MARKET, payments)
           /\ balance' = PaidAll(balance, MARKET, payments)
           /\ totalSales' = totalSales + 1
           /\ totalVolume' = totalVolume + listing.price
    /\ callOut' = Returned
    /\ UNCHANGED <<now, registryVars, escrowState, marketVars, totalListings, marketConfig,
                   royaltyVars>>

\* acceptOffer up to nft.safeTransferFrom(msg.sender, offer.buyer, tokenId)
acceptOfferCallOut(caller, offerId, ext) ==
    /\ acceptOfferRequires(caller, offerId)
    /\ LET offer == OfferAt(offerId)
           royalty == SaleRoyalty(offer.nftContract, offer.tokenId, offer.amount, ext)
       IN  /\ RoyaltyEngineAnswers
           /\ SellerAmount(offer.amount, royalty.amount) >= 0
           /\ CanTransferToken(MARKET, caller, offer.buyer, offer.tokenId)
           /\ offers' = Put(offers, offerId, [offer EXCEPT !.active = FALSE])
           /\ ownerOf' = [ownerOf EXCEPT ![offer.tokenId] = offer.buyer]
           /\ tokenApproval' = [tokenApproval EXCEPT ![offer.tokenId] = ZERO]
           /\ callOut' = Append(callOut,
                 CallFrame("acceptOffer", offer.buyer, caller, offerId, 0, 0,
                           MarketFee(offer.amount),
                           SellerAmount(offer.amount, royalty.amount), royalty))
    /\ UNCHANGED <<now, balance, operatorApproval, registryPaused, mintSettings, escrowState, listings,
                   tokenToListingId, userListings, userOffers, marketTotals, marketConfig,
                   royaltyVars>>

\* acceptOffer from the payments to its end
acceptOfferReturn ==
    /\ Frame.op = "acceptOffer"
    /\ LET offer == OfferAt(Frame.id)
           payments == SalePayments(Frame.sender, Frame.sellerAmount, Frame.fee, Frame.royalty)
           existingListingId == TokenListing(offer.nftContract, offer.tokenId)
       IN  /\ CanPayAll(balance, MARKET, payments)
           /\ balance' = PaidAll(balance, MARKET, payments)
           /\ IF existingListingId # ZeroId /\ ListingAt(existingListingId).active
              THEN /\ listings' = CancelledListings(listings, existingListingId)
                   /\ tokenToListingId' = ClearedTokenIndex(existingListingId)
              ELSE UNCHANGED <<listings, tokenToListingId>>
           /\ totalSales' = totalSales + 1
           /\ totalVolume' = totalVolume + offer.amount
    /\ callOut' = Returned
    /\ UNCHANGED <<now, registryVars, escrowState, offers, userListings, userOffers,
                   totalListings, marketConfig, royaltyVars>>

\* the cancellation of an escrow up to
\* safeTransferFrom(address(this), escrow.seller, tokenId), for the operation
\* op that makes it
refundEscrowCallOut(op, caller, escrowId, e) ==
    /\ IsRegistry(e.nftContract)
    /\ CanTransferToken(ESCROW, ESCROW, e.seller, e.tokenId)
    /\ escrowTransactions' = Put(escrowTransactions, escrowId, [e EXCEPT !.status = "Cancelled"])
    /\ ownerOf' = [ownerOf EXCEPT ![e.tokenId] = e.seller]
    /\ tokenApproval' = [tokenApproval EXCEPT ![e.tokenId] = ZERO]
    /\ callOut' = Append(callOut,
          CallFrame(op, e.seller, caller, ZeroId, escrowId, 0, 0, 0,
                    [recipient |-> ZERO, amount |-> 0]))

\* cancelEscrow up to the asset transfer
cancelEscrowCallOut(caller, escrowId) ==
    /\ cancelEscrowRequires(caller, escrowId)
    /\ refundEscrowCallOut("cancelEscrow", caller, escrowId, EscrowAt(escrowId))
    /\ UNCHANGED <<now, balance, operatorApproval, registryPaused, mintSettings, nextEscrowId, userEscrows,
                   escrowConfig, marketState>>

\* cancelEscrow, and resolveDispute in the seller's favour, from
\* payable(escrow.buyer).transfer(escrow.price) to the end
refundEscrowReturn ==
    /\ Frame.op \in {"cancelEscrow", "resolveDisputeForSeller"}
    /\ LET e == EscrowAt(Frame.escrowId)
           payments == <<[to |-> e.buyer, amount |-> e.price]>>
       IN  /\ CanPayAll(balance, ESCROW, payments)
           /\ balance' = PaidAll(balance, ESCROW, payments)
    /\ callOut' = Returned
    /\ UNCHANGED <<now, registryVars, escrowState, marketState>>

\* _completeEscrow up to safeTransferFrom(address(this), escrow.buyer, tokenId),
\* on the record e, for the operation op that reached it: fee and seller
\* amount are computed before the transfer, the payments follow it
completeEscrowCallOut(op, caller, escrowId, e) ==
    /\ IsRegistry(e.nftContract)
    /\ CanTransferToken(ESCROW, ESCROW, e.buyer, e.tokenId)
    /\ escrowTransactions' = Put(escrowTransactions, escrowId, [e EXCEPT !.status = "Completed"])
    /\ ownerOf' = [ownerOf EXCEPT ![e.tokenId] = e.buyer]
    /\ tokenApproval' = [tokenApproval EXCEPT ![e.tokenId] = ZERO]
    /\ callOut' = Append(callOut,
          CallFrame(op, e.buyer, caller, ZeroId, escrowId, 0, EscrowFee(e.price),
                    e.price - EscrowFee(e.price), [recipient |-> ZERO, amount |-> 0]))

\* the approveEscrow call that sets the second flag, up to the asset transfer
approveEscrowCallOut(caller, escrowId) ==
    /\ approveEscrowRequires(caller, escrowId)
    /\ LET e == ApprovedRecord(EscrowAt(escrowId), caller) IN
         /\ e.sellerApproved /\ e.buyerApproved
         /\ completeEscrowCallOut("approveEscrow", caller, escrowId, e)
    /\ UNCHANGED <<now, balance, operatorApproval, registryPaused, mintSettings, nextEscrowId, userEscrows,
                   escrowConfig, marketState>>

\* resolveDispute up to the asset transfer: to the buyer in _completeEscrow,
\* to the seller otherwise
resolveDisputeCallOut(caller, escrowId, favorBuyer) ==
    /\ resolveDisputeRequires(caller, escrowId)
    /\ IF favorBuyer
       THEN completeEscrowCallOut("resolveDisputeForBuyer", caller, escrowId,
                                  EscrowAt(escrowId))
       ELSE refundEscrowCallOut("resolveDisputeForSeller", caller, escrowId,
                                EscrowAt(escrowId))
    /\ UNCHANGED <<now, balance, operatorApproval, registryPaused, mintSettings, nextEscrowId, userEscrows,
                   escrowConfig, marketState>>

\* _completeEscrow from payable(escrow.seller).transfer(sellerAmount) to the
\* end of the operation that reached it
completeEscrowReturn ==
    /\ Frame.op \in {"approveEscrow", "resolveDisputeForBuyer"}
    /\ LET e == EscrowAt(Frame.escrowId)
           payments == CompletionPayments(e.seller, Frame.sellerAmount, Frame.fee)
       IN  /\ CanPayAll(balance, ESCROW, payments)
           /\ balance' = PaidAll(balance, ESCROW, payments)
    /\ callOut' = Returned
    /\ UNCHANGED <<now, registryVars, escrowState, marketState>>

(***************************************************************************)
(* Call-outs of the registry.  _safeMint calls onERC721Received on a       *)
(* recipient that is a contract, once for every id handed out, and the     *)
(* recipient may call the registry and the engines from there.  mint and   *)
(* batchMint hold the registry's reentrancy lock meanwhile, ownerMint and  *)
(* ownerBatchMint hold none.  The checks on the supply are made before the *)
(* first id is handed out; the token URI is set, on a token that must      *)
(* still exist, after the callback; the excess payment goes back last.     *)
(***************************************************************************)
\* a mint call up to its first _safeMint(to, tokenId), for the operation op
\* that makes it: the next id is handed out to the first of the recipients
safeMintCallOut(op, caller, recipients, value, cost) ==
    /\ CanMint(Head(recipients))
    /\ ownerOf' = MintedTo(ownerOf, <<Head(recipients)>>)
    /\ tokenApproval' = MintedApprovals(tokenApproval, <<Head(recipients)>>)
    /\ callOut' = Append(callOut,
          MintFrame(op, Head(recipients), caller, value, cost, Tail(recipients), NextTokenId))

\* mint up to _safeMint(to, tokenId); the ether sent is with the registry
mintCallOut(caller, to, value) ==
    /\ CanPay(balance, caller, value)
    /\ mintRequires(value)
    /\ safeMintCallOut("mint", caller, <<to>>, value, 0)
    /\ balance' = Pay(balance, caller, NFT, value)
    /\ UNCHANGED <<now, operatorApproval, registryPaused, mintSettings, escrowState,
                   marketState>>

\* batchMint up to the first _safeMint(to, tokenId) of its loop
batchMintCallOut(caller, to, count, value) ==
    /\ CanPay(balance, caller, value)
    /\ batchMintRequires(count, value)
    /\ safeMintCallOut("batchMint", caller, [i \in 1..count |-> to], value, mintPrice * count)
    /\ balance' = Pay(balance, caller, NFT, value)
    /\ UNCHANGED <<now, operatorApproval, registryPaused, mintSettings, escrowState,
                   marketState>>

\* ownerMint up to _safeMint(to, tokenId)
ownerMintCallOut(caller, to) ==
    /\ caller = RegistryOwner
    /\ NextTokenId <= maxSupply
    /\ safeMintCallOut("ownerMint", caller, <<to>>, 0, 0)
    /\ UNCHANGED <<now, balance, operatorApproval, registryPaused, mintSettings, escrowState,
                   marketState>>

\* ownerBatchMint up to the first _safeMint(recipients[i], tokenId) of its loop
ownerBatchMintCallOut(caller, recipients) ==
    /\ caller = RegistryOwner
    /\ Len(recipients) > 0
    /\ NextTokenId + Len(recipients) - 1 <= maxSupply
    /\ safeMintCallOut("ownerBatchMint", caller, recipients, 0, 0)
    /\ UNCHANGED <<now, balance, operatorApproval, registryPaused, mintSettings, escrowState,
                   marketState>>

\* the loop of batchMint and of ownerBatchMint from the return of a callback
\* to the next _safeMint: the URI of the id just handed out is set and the
\* next id goes to the next recipient, with no further check on the supply
safeMintNext ==
    /\ Frame.op \in {"batchMint", "ownerBatchMint"}
    /\ Len(Frame.pending) > 0
    /\ Exists(Frame.tokenId)
    /\ CanMint(Head(Frame.pending))
    /\ ownerOf' = MintedTo(ownerOf, <<Head(Frame.pending)>>)
    /\ tokenApproval' = MintedApprovals(tokenApproval, <<Head(Frame.pending)>>)
    /\ callOut' = [callOut EXCEPT ![Len(callOut)] =
                      [@ EXCEPT !.recipient = Head(Frame.pending),
                                !.pending = Tail(Frame.pending),
                                !.tokenId = NextTokenId]]
    /\ UNCHANGED <<now, balance, operatorApproval, registryPaused, mintSettings, escrowState,
                   marketState>>

\* the refund of what was sent above `cost`, out of the registry's balance
MintRefund(cost) ==
    IF Frame.value > cost
    THEN <<[to |-> Frame.sender, amount |-> Frame.value - cost]>>
    ELSE <<>>

\* mint from _setTokenURI(tokenId, uri) to its end: the refund is measured
\* against the mint price read after the callback
mintReturn ==
    /\ Frame.op = "mint"
    /\ Exists(Frame.tokenId)
    /\ CanPayAll(balance, NFT, MintRefund(mintPrice))
    /\ balance' = PaidAll(balance, NFT, MintRefund(mintPrice))
    /\ callOut' = Returned
    /\ UNCHANGED <<now, registryVars, escrowState, marketState>>

\* batchMint from the last _setTokenURI to its end: the refund is measured
\* against the total cost computed before the loop
batchMintReturn ==
    /\ Frame.op = "batchMint"
    /\ Len(Frame.pending) = 0
    /\ Exists(Frame.tokenId)
    /\ CanPayAll(balance, NFT, MintRefund(Frame.cost))
    /\ balance' = PaidAll(balance, NFT, MintRefund(Frame.cost))
    /\ callOut' = Returned
    /\ UNCHANGED <<now, registryVars, escrowState, marketState>>

\* ownerMint and ownerBatchMint from the last _setTokenURI to the end
ownerMintReturn ==
    /\ Frame.op \in {"ownerMint", "ownerBatchMint"}
    /\ Len(Frame.pending) = 0
    /\ Exists(Frame.tokenId)
    /\ callOut' = Returned
    /\ UNCHANGED <<now, balance, registryVars, escrowState, marketState>>

(***************************************************************************)
(* Next-state relations.  The caps on the number of escrows, listings,     *)
(* offers and sales keep the state space finite; they are bounds of the    *)
(* model, not conditions of the code.                                      *)
(***************************************************************************)
AllEscrowIds == 0..(MaxEscrows + 1)
AllListingIds == {ListingIdOf(NFT, t, ts) : t \in TradedTokens, ts \in 0..MaxTime}
AllOfferIds == {OfferIdOf(b, NFT, t, ts) : b \in Holders, t \in TradedTokens, ts \in 0..MaxTime}
OffersMade == Len(userOffers["alice"]) + Len(userOffers["bob"])

\* every escrow's dispute window closes within the modelled time
Deadlines == 0..(MaxTime - disputeWindow - 1)

\* the registry does not declare the royalty-query capability
NoRoyaltyAnswer == [supports |-> FALSE, reverts |-> FALSE, recipient |-> ZERO, fraction |-> 0]

\* a buyer can be an account, the empty address or a contract that refuses ether
EscrowBuyers == Holders \cup {ZERO, MARKET}

\* the payments sent with createEscrow: nothing (rejected) or a price
EscrowPayments == {0} \cup Prices

\* The trading operations of the escrow engine, for escrows created for the
\* given buyers at the given prices.
EscrowTrade(maxEscrows, buyers, prices) ==
    \/ \E c \in Holders, t \in TradedTokens : approve(c, ESCROW, t)
    \/ /\ nextEscrowId <= maxEscrows
       /\ \E c \in Accounts, b \in buyers, t \in TradedTokens, v \in prices, d \in Deadlines :
             createEscrow(c, b, NFT, t, d, v)
    \/ \E c \in Accounts, id \in AllEscrowIds : approveEscrow(c, id)
    \/ \E c \in Accounts, id \in AllEscrowIds : cancelEscrow(c, id)
    \/ \E c \in Accounts, id \in AllEscrowIds : initiateDispute(c, id)
    \/ \E c \in Accounts, id \in AllEscrowIds, f \in BOOLEAN : resolveDispute(c, id, f)

EscrowAdmin ==
    \/ \E c \in Accounts, w \in BOOLEAN : escrowSetContractWhitelist(c, NFT, w)
    \/ \E c \in Accounts, f \in FeeChoices : setEscrowFee(c, f)
    \/ \E c \in Accounts, r \in FeeRecipientChoices : escrowSetFeeRecipient(c, r)
    \/ \E c \in Accounts, r \in ResolverChoices : setDisputeResolver(c, r)

EscrowEmergency ==
    \/ \E c \in Accounts : escrowPause(c)
    \/ \E c \in Accounts : escrowUnpause(c)
    \/ \E c \in Accounts : escrowEmergencyWithdraw(c)

\* The operations of the marketplace in groups.
Listings(maxListings, prices) ==
    \/ \E c \in Holders, t \in TradedTokens : approve(c, MARKET, t)
    \/ /\ totalListings < maxListings
       /\ \E c \in Accounts, t \in TradedTokens, p \in prices \cup {0}, d \in Durations :
             listItem(c, NFT, t, p, d)
    \/ \E c \in Accounts, id \in AllListingIds : cancelListing(c, id)
    \/ \E c \in Accounts, id \in AllListingIds, p \in Prices \cup {0} : updateListing(c, id, p)

Purchases(maxSales, answers) ==
    /\ totalSales < maxSales
    /\ \E c \in Holders \cup {"carol"}, id \in AllListingIds, v \in Payments, ext \in answers :
          buyItem(c, id, v, ext)

Offers(maxOffers, prices) ==
    \/ /\ OffersMade < maxOffers
       /\ \E c \in Holders, t \in TradedTokens, d \in Durations, v \in prices \cup {0} :
             createOffer(c, NFT, t, d, v)
    \/ \E c \in Accounts, id \in AllOfferIds : cancelOffer(c, id)

Acceptances(maxSales, answers) ==
    /\ totalSales < maxSales
    /\ \E c \in Accounts, id \in AllOfferIds, ext \in answers : acceptOffer(c, id, ext)

\* What the holders do with the traded assets at the registry, outside the
\* engines: they move an asset as its owner, as its approved spender or as
\* an operator (also to where it is), and burn it.
RegistryUse ==
    \/ \E c \in Holders, from \in Holders, to \in Holders, t \in TradedTokens :
          transferFrom(c, from, to, t)
    \/ \E c \in Holders, t \in TradedTokens : burn(c, t)

\* the registry's owner pauses the registry and takes the pause back
RegistryPausing ==
    \/ \E c \in Accounts : registryPause(c)
    \/ \E c \in Accounts : registryUnpause(c)

\* The escrow engine with every operation it has, for one escrow at a time
\* whose buyer may be a contract.
NextEscrow ==
    \/ Tick
    \/ EscrowTrade(MaxSettlements, EscrowBuyers, EscrowPayments)
    \/ EscrowAdmin
    \/ EscrowEmergency
    \/ RegistryPausing

SpecEscrow == Init /\ [][NextEscrow]_vars

\* The life of escrows of one price from creation to completion,
\* cancellation or the resolver's decision, with room for a second escrow.
NextEscrowFlow ==
    \/ Tick
    \/ EscrowTrade(MaxEscrows, EscrowBuyers, {0, 1000})
    \/ RegistryPausing
    \/ \E c \in Accounts : escrowSetContractWhitelist(c, NFT, TRUE)
    \/ \E c \in Accounts, r \in ResolverChoices : setDisputeResolver(c, r)

SpecEscrowFlow == Init /\ [][NextEscrowFlow]_vars

\* The escrow engine's payouts under the owner's changes of the fee and of
\* its recipient.
NextEscrowFees ==
    \/ Tick
    \/ EscrowTrade(MaxSettlements, Holders, Prices)
    \/ \E c \in Accounts : escrowSetContractWhitelist(c, NFT, TRUE)
    \/ \E c \in Accounts, f \in FeeChoices : setEscrowFee(c, f)
    \/ \E c \in Accounts, r \in FeeRecipientChoices : escrowSetFeeRecipient(c, r)

SpecEscrowFees == Init /\ [][NextEscrowFees]_vars

\* Two escrows over the two assets, opened, approved, cancelled, disputed
\* and resolved in any order, under the owner's changes of the fee, of its
\* recipient and of the resolver; the engine is never paused, so there is no
\* emergencyWithdraw.
SolvencyFees == {250, 1000}
SolvencyFeeRecipients == {"treasury", "alice"}
SolvencyResolvers == {"resolver", "carol"}
NextEscrowSolvency ==
    \/ now < SolvencyHorizon /\ Tick
    \/ \E t \in TokenIds : approve("alice", ESCROW, t)
    \/ /\ nextEscrowId <= MaxEscrows
       /\ \E c \in Holders, t \in TokenIds, v \in Prices :
             createEscrow(c, "bob", NFT, t, 1, v)
    \/ \E c \in Accounts, id \in 1..MaxEscrows : approveEscrow(c, id)
    \/ \E c \in Accounts, id \in 1..MaxEscrows : cancelEscrow(c, id)
    \/ \E c \in Accounts, id \in 1..MaxEscrows : initiateDispute(c, id)
    \/ \E c \in Accounts, id \in 1..MaxEscrows, f \in BOOLEAN : resolveDispute(c, id, f)
    \/ \E c \in Accounts : escrowSetContractWhitelist(c, NFT, TRUE)
    \/ \E c \in Accounts, f \in SolvencyFees : setEscrowFee(c, f)
    \/ \E c \in Accounts, r \in SolvencyFeeRecipients : escrowSetFeeRecipient(c, r)
    \/ \E c \in Accounts, r \in SolvencyResolvers : setDisputeResolver(c, r)

SpecEscrowSolvency == Init /\ [][NextEscrowSolvency]_vars

\* The two engines are separate contracts that share only the registry and
\* the ether ledger.  Next runs both side by side on the same asset, for one
\* listing, one offer, one escrow and one sale, at every fee the
\* marketplace's owner can set and under every answer of the registry to the
\* royalty query, until the listing and the offer expire.
Next ==
    \/ now < Horizon /\ Tick
    \/ \E c \in Holders, e \in {MARKET, ESCROW}, t \in TradedTokens : approve(c, e, t)
    \/ \E c \in Accounts : marketSetContractWhitelist(c, NFT, TRUE)
    \/ \E c \in Accounts : escrowSetContractWhitelist(c, NFT, TRUE)
    \/ \E c \in Accounts, f \in FeeChoices : setMarketplaceFee(c, f)
    \/ /\ totalListings < MaxSettlements
       /\ \E c \in Holders, t \in TradedTokens, p \in Prices : listItem(c, NFT, t, p, 1)
    \/ /\ totalSales < MaxSettlements
       /\ \E c \in Holders \cup {"carol"}, id \in AllListingIds, v \in Payments,
             ext \in RegistryAnswers :
             buyItem(c, id, v, ext)
    \/ \E c \in Accounts, id \in AllListingIds : cancelListing(c, id)
    \/ /\ OffersMade < MaxSettlements
       /\ \E c \in Holders, t \in TradedTokens : createOffer(c, NFT, t, 1, 1000)
    \/ /\ totalSales < MaxSettlements
       /\ \E c \in Accounts, id \in AllOfferIds, ext \in RegistryAnswers :
             acceptOffer(c, id, ext)
    \/ \E c \in Accounts, id \in AllOfferIds : cancelOffer(c, id)
    \/ /\ nextEscrowId <= MaxSettlements
       /\ \E c \in Holders, b \in Holders, t \in TradedTokens, d \in Deadlines :
             createEscrow(c, b, NFT, t, d, 1000)
    \/ \E c \in Accounts, id \in AllEscrowIds : approveEscrow(c, id)
    \/ \E c \in Accounts, id \in AllEscrowIds : cancelEscrow(c, id)
    \/ \E c \in Accounts, id \in AllEscrowIds : initiateDispute(c, id)
    \/ \E c \in Accounts, id \in AllEscrowIds, f \in BOOLEAN : resolveDispute(c, id, f)

Spec == Init /\ [][Next]_vars

\* The configuration of both engines: the owner's changes of whitelist and
\* fee, and the operations that create a listing, an offer and an escrow,
\* for the registry and for an address that answers no registry call.
NextConfig ==
    \/ Tick
    \/ \E c \in Holders, e \in {MARKET, ESCROW}, t \in TradedTokens : approve(c, e, t)
    \/ \E c \in Accounts, n \in Registries, w \in BOOLEAN : marketSetContractWhitelist(c, n, w)
    \/ \E c \in Accounts, n \in Registries, w \in BOOLEAN : escrowSetContractWhitelist(c, n, w)
    \/ \E c \in Accounts, f \in FeeChoices : setMarketplaceFee(c, f)
    \/ \E c \in Accounts, f \in FeeChoices : setEscrowFee(c, f)
    \/ /\ totalListings < MaxSettlements
       /\ \E c \in Accounts, n \in Registries, t \in TradedTokens, p \in {0, 1000},
             d \in Durations :
             listItem(c, n, t, p, d)
    \/ /\ OffersMade < MaxSettlements
       /\ \E c \in Holders, n \in Registries, t \in TradedTokens, d \in Durations,
             v \in {0, 1000} :
             createOffer(c, n, t, d, v)
    \/ /\ nextEscrowId <= MaxSettlements
       /\ \E c \in Accounts, b \in Holders \cup {ZERO}, n \in Registries, t \in TradedTokens,
             v \in {0, 1000}, d \in Deadlines :
             createEscrow(c, b, n, t, d, v)

SpecConfig == Init /\ [][NextConfig]_vars

\* One listing under its seller's and the owner's changes, and its sale.
NextListingEdits ==
    \/ Tick
    \/ Listings(MaxSettlements, Prices)
    \/ Purchases(MaxSales, {NoRoyaltyAnswer})
    \/ \E c \in Accounts : marketSetContractWhitelist(c, NFT, TRUE)

SpecListingEdits == Init /\ [][NextListingEdits]_vars

\* The marketplace's listings, with room for a second listing of the asset,
\* one sale, and the holders' dealings with the asset outside the marketplace.
NextListings ==
    \/ Tick
    \/ Listings(MaxListings, Prices)
    \/ Purchases(MaxSales, {NoRoyaltyAnswer})
    \/ Offers(MaxOffers, {1000})
    \/ Acceptances(MaxSales, {NoRoyaltyAnswer})
    \/ RegistryUse
    \/ \E c \in Accounts : marketSetContractWhitelist(c, NFT, TRUE)

SpecListings == Init /\ [][NextListings]_vars

\* Sales through the marketplace under every fee, fee recipient and royalty
\* answer.
NextSales ==
    \/ Tick
    \/ \E c \in Holders, t \in TradedTokens : approve(c, MARKET, t)
    \/ /\ totalListings < MaxSales
       /\ \E c \in Accounts, t \in TradedTokens, p \in Prices, d \in Durations :
             listItem(c, NFT, t, p, d)
    \/ Purchases(MaxSales, RegistryAnswers)
    \/ /\ OffersMade < MaxOffers
       /\ \E c \in Holders, t \in TradedTokens, d \in Durations, v \in Prices :
             createOffer(c, NFT, t, d, v)
    \/ Acceptances(MaxSales, RegistryAnswers)
    \/ \E c \in Accounts : marketSetContractWhitelist(c, NFT, TRUE)
    \/ \E c \in Accounts, f \in FeeChoices : setMarketplaceFee(c, f)
    \/ \E c \in Accounts, r \in FeeRecipientChoices : marketSetFeeRecipient(c, r)

SpecSales == Init /\ [][NextSales]_vars

\* Sales at 1.0 through listings and offers at every fee the owner can set,
\* with the royalty taken from each of the three stored layers, from the
\* registry's own answer, or from a royalty engine without records.
ShareAnswers ==
    { NoRoyaltyAnswer,
      [supports |-> TRUE, reverts |-> FALSE, recipient |-> "carol", fraction |-> 1000],
      [supports |-> TRUE, reverts |-> FALSE, recipient |-> "carol", fraction |-> 1100] }
ShareRecords ==
    { [recipient |-> "resolver", percentage |-> 1000],
      [recipient |-> "resolver", percentage |-> 1001] }
NextSaleShares ==
    \/ \E c \in Holders, t \in TradedTokens : approve(c, MARKET, t)
    \/ \E c \in Accounts : marketSetContractWhitelist(c, NFT, TRUE)
    \/ \E c \in Accounts, f \in FeeChoices : setMarketplaceFee(c, f)
    \/ \E c \in Accounts, e \in RoyaltyEngines : setRoyaltyEngine(c, e)
    \/ \E c \in Accounts, r \in ShareRecords : setDefaultRoyalty(c, r.recipient, r.percentage)
    \/ \E c \in Accounts, r \in ShareRecords :
          setContractRoyalty(c, NFT, r.recipient, r.percentage)
    \/ \E c \in Accounts, r \in ShareRecords, t \in TradedTokens :
          setTokenRoyalty(c, NFT, t, r.recipient, r.percentage)
    \/ /\ totalListings < MaxTotalSales
       /\ \E c \in Holders, t \in TradedTokens : listItem(c, NFT, t, 1000, 1)
    \/ /\ totalSales < MaxTotalSales
       /\ \E c \in Holders, id \in AllListingIds, ext \in ShareAnswers :
             buyItem(c, id, 1000, ext)
    \/ /\ OffersMade < MaxOffers
       /\ \E c \in Holders, t \in TradedTokens : createOffer(c, NFT, t, 1, 1000)
    \/ /\ totalSales < MaxTotalSales
       /\ \E c \in Holders, id \in AllOfferIds, ext \in ShareAnswers : acceptOffer(c, id, ext)

SpecSaleShares == Init /\ [][NextSaleShares]_vars

\* Both engines put to use side by side, with the pause switch and the
\* emergency withdrawal of both.
NextEmergency ==
    \/ Tick
    \/ \E c \in Holders, t \in TradedTokens : approve(c, ESCROW, t)
    \/ /\ nextEscrowId <= MaxSettlements
       /\ \E c \in Accounts, b \in Holders, t \in TradedTokens, d \in Deadlines :
             createEscrow(c, b, NFT, t, d, 1000)
    \/ \E c \in Accounts, id \in AllEscrowIds : approveEscrow(c, id)
    \/ \E c \in Accounts, id \in AllEscrowIds : cancelEscrow(c, id)
    \/ \E c \in Accounts : escrowSetContractWhitelist(c, NFT, TRUE)
    \/ \E c \in Accounts : escrowPause(c)
    \/ \E c \in Accounts : escrowUnpause(c)
    \/ \E c \in Accounts : escrowEmergencyWithdraw(c)
    \/ \E c \in Holders, t \in TradedTokens : approve(c, MARKET, t)
    \/ /\ totalListings < MaxSettlements
       /\ \E c \in Accounts, t \in TradedTokens, d \in Durations : listItem(c, NFT, t, 1000, d)
    \/ /\ totalSales < MaxSettlements
       /\ \E c \in Holders, id \in AllListingIds : buyItem(c, id, 1000, NoRoyaltyAnswer)
    \/ /\ OffersMade < MaxSettlements
       /\ \E c \in Holders, t \in TradedTokens, d \in Durations : createOffer(c, NFT, t, d, 1000)
    \/ \E c \in Accounts, id \in AllOfferIds : cancelOffer(c, id)
    \/ \E c \in Accounts : marketSetContractWhitelist(c, NFT, TRUE)
    \/ \E c \in Accounts : marketPause(c)
    \/ \E c \in Accounts : marketUnpause(c)
    \/ \E c \in Accounts : marketEmergencyWithdraw(c)

SpecEmergency == Init /\ [][NextEmergency]_vars

\* Purchases of four listed assets, one sale at most, while a seller grants
\* and revokes the marketplace's approval and the owner moves the fee
\* recipient between an account and a contract that refuses ether; the
\* seller, the buyer and the royalty recipient can each be the vault, which
\* refuses ether too.
PurchaseFeeRecipients == {"treasury", ESCROW}
\* the vault's owner has it list the asset it was given; a seller, a buyer
\* and a royalty recipient that refuse ether are all the vault
PurchaseBuyers == {"bob", VAULT}
\* the addresses that hold ether
PurchaseCallers == Holders \cup {"carol", VAULT}
PurchaseAnswers ==
    { [supports |-> FALSE, reverts |-> FALSE, recipient |-> ZERO, fraction |-> 0],
      [supports |-> TRUE, reverts |-> FALSE, recipient |-> "carol", fraction |-> 1000],
      [supports |-> TRUE, reverts |-> FALSE, recipient |-> VAULT, fraction |-> 1000] }
PurchasePayments == {39, 1000, 1500}
\* the listings made: three of alice's assets, two of them minted to her
\* by the registry's owner, and the asset she gave to the vault; at 0.039
\* the marketplace fee rounds down to nothing
PurchaseListings ==
    { [seller |-> "alice", tokenId |-> 1, price |-> 39],
      [seller |-> VAULT, tokenId |-> 2, price |-> 39],
      [seller |-> "alice", tokenId |-> 3, price |-> 39],
      [seller |-> "alice", tokenId |-> 4, price |-> 1000] }

NextPurchase ==
    \/ now < Horizon /\ Tick
    \/ \E to \in {MARKET, ZERO} : approve("alice", to, 1)
    \/ \E l \in PurchaseListings : approve(l.seller, MARKET, l.tokenId)
    \/ transferFrom("alice", "alice", VAULT, 2)
    \/ NextTokenId <= MaxTokens /\ \E c \in Accounts : ownerMint(c, "alice")
    \/ \E c \in Accounts : marketSetContractWhitelist(c, NFT, TRUE)
    \/ \E c \in Accounts, r \in PurchaseFeeRecipients : marketSetFeeRecipient(c, r)
    \/ \E l \in PurchaseListings : listItem(l.seller, NFT, l.tokenId, l.price, 1)
    \/ /\ totalSales < MaxSales
       /\ \E c \in PurchaseBuyers, id \in DOMAIN listings, v \in PurchasePayments,
             ext \in PurchaseAnswers :
             buyItem(c, id, v, ext)

SpecPurchase == Init /\ [][NextPurchase]_vars

\* Sales and escrow completions while the owners take the registry off the
\* engines' whitelists again, and assets are moved, burned and minted at
\* the registry.  The recipient of a mint is a holder, or the registry
\* itself, which has no onERC721Received.
MintRecipients == {"bob", NFT}
MintBatches == {<<"alice", "bob">>, <<"bob", NFT>>}
MintPayments == {0, DefaultMintPrice, 39}

NextDelisting ==
    \/ Tick
    \/ \E c \in Holders, e \in {MARKET, ESCROW, "bob"}, t \in TradedTokens : approve(c, e, t)
    \/ \E c \in Holders, a \in BOOLEAN : setApprovalForAll(c, "bob", a)
    \/ RegistryUse
    \/ RegistryPausing
    \/ NextTokenId <= MaxTokens /\ \E c \in Accounts, to \in MintRecipients : ownerMint(c, to)
    \/ /\ NextTokenId + 1 <= MaxTokens
       /\ \E c \in Accounts, rs \in MintBatches : ownerBatchMint(c, rs)
    \/ /\ NextTokenId <= MaxTokens
       /\ \E to \in MintRecipients, v \in MintPayments : mint("carol", to, v)
    \/ \E to \in MintRecipients, n \in 0..2 :
          /\ NextTokenId + n - 1 <= MaxTokens
          /\ batchMint("carol", to, n, 2 * DefaultMintPrice)
    \/ \E c \in Accounts, w \in BOOLEAN : marketSetContractWhitelist(c, NFT, w)
    \/ \E c \in Accounts, w \in BOOLEAN : escrowSetContractWhitelist(c, NFT, w)
    \/ /\ totalListings < MaxSettlements
       /\ \E c \in Holders, t \in TradedTokens, d \in Durations : listItem(c, NFT, t, 1000, d)
    \/ /\ totalSales < MaxSettlements
       /\ \E c \in Holders \cup {"carol"}, id \in AllListingIds :
             buyItem(c, id, 1000, NoRoyaltyAnswer)
    \/ /\ nextEscrowId <= MaxSettlements
       /\ \E c \in Holders, b \in Holders, t \in TradedTokens, d \in Deadlines :
             createEscrow(c, b, NFT, t, d, 1000)
    \/ \E c \in Holders, id \in AllEscrowIds : approveEscrow(c, id)

SpecDelisting == Init /\ [][NextDelisting]_vars

\* The marketplace's running totals, with room for a second sale.
NextTotals ==
    \/ Tick
    \/ Listings(MaxListings, Prices)
    \/ Purchases(MaxTotalSales, {NoRoyaltyAnswer})
    \/ Offers(MaxOffers, Prices)
    \/ Acceptances(MaxTotalSales, {NoRoyaltyAnswer})
    \/ \E c \in Accounts : marketSetContractWhitelist(c, NFT, TRUE)

SpecTotals == Init /\ [][NextTotals]_vars

\* Both engines with holders that are contracts, one asset traded on the
\* marketplace and another put in escrow.  Between transactions a call is
\* made by anyone and time passes; while calls are waiting for a callback,
\* calls are made by the recipient whose callback is running.  Such a call
\* may call out itself, MaxDepth calls deep; every waiting call can return
\* or be undone, and with a fee recipient that refuses ether a sale can only
\* be undone.  The marketplace's owner pauses it and withdraws its balance
\* between transactions.
EscrowedTokens == TokenIds \ TradedTokens

MayCall(c) == Len(callOut) = 0 \/ c = Frame.recipient

NextReentrancy ==
    \/ Len(callOut) = 0 /\ now < Horizon /\ Tick
    \/ \E c \in Holders, t \in TradedTokens : MayCall(c) /\ approve(c, MARKET, t)
    \/ \E c \in Holders, t \in EscrowedTokens : MayCall(c) /\ approve(c, ESCROW, t)
    \/ \E c \in Accounts : MayCall(c) /\ marketSetContractWhitelist(c, NFT, TRUE)
    \/ \E c \in Accounts : MayCall(c) /\ escrowSetContractWhitelist(c, NFT, TRUE)
    \/ \E c \in Accounts, r \in PurchaseFeeRecipients :
          MayCall(c) /\ marketSetFeeRecipient(c, r)
    \/ /\ totalListings < MaxSettlements
       /\ \E c \in Holders, t \in TradedTokens : MayCall(c) /\ listItem(c, NFT, t, 1000, 1)
    \/ /\ OffersMade < MaxOffers
       /\ \E c \in Holders, t \in TradedTokens : MayCall(c) /\ createOffer(c, NFT, t, 1, 1000)
    \/ /\ nextEscrowId <= MaxSettlements
       /\ \E c \in Holders, b \in Holders, t \in EscrowedTokens :
             MayCall(c) /\ createEscrow(c, b, NFT, t, 1, 1000)
    \/ /\ totalSales < MaxSales
       /\ Len(callOut) < MaxDepth
       /\ \E c \in Holders, id \in DOMAIN listings :
             MayCall(c) /\ buyItemCallOut(c, id, 1000, NoRoyaltyAnswer)
    \/ buyItemReturn
    \/ /\ totalSales < MaxSales
       /\ Len(callOut) < MaxDepth
       /\ \E c \in Holders, id \in DOMAIN offers :
             MayCall(c) /\ acceptOfferCallOut(c, id, NoRoyaltyAnswer)
    \/ acceptOfferReturn
    \/ /\ Len(callOut) < MaxDepth
       /\ \E c \in Holders, id \in AllEscrowIds : MayCall(c) /\ cancelEscrowCallOut(c, id)
    \/ /\ Len(callOut) < MaxDepth
       /\ \E c \in Holders, id \in AllEscrowIds : MayCall(c) /\ approveEscrowCallOut(c, id)
    \/ /\ Len(callOut) < MaxDepth
       /\ \E c \in Accounts, id \in AllEscrowIds, f \in BOOLEAN :
             MayCall(c) /\ resolveDisputeCallOut(c, id, f)
    \/ refundEscrowReturn
    \/ completeEscrowReturn
    \/ callOutRevert
    \/ \E c \in Holders, id \in DOMAIN listings : MayCall(c) /\ cancelListing(c, id)
    \/ \E c \in Holders, id \in DOMAIN listings : MayCall(c) /\ updateListing(c, id, 39)
    \/ \E c \in Holders, id \in DOMAIN offers : MayCall(c) /\ cancelOffer(c, id)
    \/ \E c \in Holders, id \in AllEscrowIds :
          MayCall(c) /\ approveEscrowFirst(c, id)
    \/ \E c \in Holders, id \in AllEscrowIds : MayCall(c) /\ initiateDispute(c, id)
    \/ \E c \in Accounts : MayCall(c) /\ marketPause(c)
    \/ \E c \in Accounts : MayCall(c) /\ marketUnpause(c)
    \/ \E c \in Accounts : MayCall(c) /\ marketEmergencyWithdraw(c)

SpecReentrancy == Init /\ [][NextReentrancy]_vars

\* The registry's minting with recipients that are contracts.  Between
\* transactions a call is made by anyone; while a mint is waiting for a
\* callback, calls are made by the recipient whose callback is running,
\* also when the recipient is the registry's owner.  A call made during a
\* callback may mint in turn; every waiting mint can go on, return or be
\* undone.  The owner changes the mint settings and withdraws the
\* registry's balance, and a recipient moves and burns what it holds.
MintingCallers == {"bob", "carol"}
MintingRecipients == {"bob", "carol", NFT}
MintingBatches == {<<"bob", "bob">>, <<"carol", NFT>>}
MintingPayments == {DefaultMintPrice, 39}
MintingPrices == {39}
MintingSupplies == {2, 4}
MintingBatchSizes == {1}

NextMinting ==
    \/ /\ Len(callOut) < MaxDepth
       /\ NextTokenId <= MaxMinted
       /\ \E c \in MintingCallers, to \in MintingRecipients, v \in MintingPayments :
             MayCall(c) /\ mintCallOut(c, to, v)
    \/ mintReturn
    \/ /\ Len(callOut) < MaxDepth
       /\ NextTokenId <= MaxMinted
       /\ \E c \in MintingCallers, to \in MintingRecipients, n \in 0..2 :
             MayCall(c) /\ batchMintCallOut(c, to, n, 2 * DefaultMintPrice)
    \/ NextTokenId <= MaxMinted /\ safeMintNext
    \/ batchMintReturn
    \/ /\ Len(callOut) < MaxDepth
       /\ NextTokenId <= MaxMinted
       /\ \E c \in MintingCallers, to \in MintingRecipients :
             MayCall(c) /\ ownerMintCallOut(c, to)
    \/ /\ Len(callOut) < MaxDepth
       /\ NextTokenId <= MaxMinted
       /\ \E c \in MintingCallers, rs \in MintingBatches :
             MayCall(c) /\ ownerBatchMintCallOut(c, rs)
    \/ ownerMintReturn
    \/ callOutRevert
    \/ \E t \in DOMAIN ownerOf : MayCall("bob") /\ burn("bob", t)
    \/ \E t \in DOMAIN ownerOf : MayCall("bob") /\ transferFrom("bob", "bob", "alice", t)
    \/ \E c \in MintingCallers, p \in MintingPrices : MayCall(c) /\ setMintPrice(c, p)
    \/ \E c \in MintingCallers, n \in MintingSupplies : MayCall(c) /\ setMaxSupply(c, n)
    \/ \E c \in MintingCallers, n \in MintingBatchSizes :
          MayCall(c) /\ setMaxMintPerTx(c, n)
    \/ \E c \in MintingCallers, e \in BOOLEAN : MayCall(c) /\ setPublicMintEnabled(c, e)
    \/ \E c \in MintingCallers : MayCall(c) /\ withdraw(c)
    \/ \E c \in MintingCallers : MayCall(c) /\ registryEmergencyWithdraw(c)

SpecMinting == Init /\ [][NextMinting]_vars

\* Both engines at work on the same asset: it can be listed and offered for
\* on the marketplace and be put in escrow at the same time, and the
\* registry's owner can make either engine an operator of every holder.
NextCrossEngine ==
    \/ Tick
    \/ \E c \in Holders, e \in {MARKET, ESCROW}, t \in TradedTokens : approve(c, e, t)
    \/ \E c \in Accounts, e \in {MARKET, ESCROW}, w \in BOOLEAN :
          setMarketplaceWhitelist(c, e, w)
    \/ \E c \in Accounts : marketSetContractWhitelist(c, NFT, TRUE)
    \/ \E c \in Accounts : escrowSetContractWhitelist(c, NFT, TRUE)
    \/ /\ totalListings < MaxSettlements
       /\ \E c \in Holders, t \in TradedTokens, d \in Durations : listItem(c, NFT, t, 1000, d)
    \/ /\ OffersMade < MaxOffers
       /\ \E c \in Holders, t \in TradedTokens, d \in Durations : createOffer(c, NFT, t, d, 1000)
    \/ /\ totalSales < MaxSales
       /\ \E c \in Holders, id \in AllListingIds, v \in Payments : buyItem(c, id, v, NoRoyaltyAnswer)
    \/ /\ totalSales < MaxSales
       /\ \E c \in Holders, id \in AllOfferIds : acceptOffer(c, id, NoRoyaltyAnswer)
    \/ /\ nextEscrowId <= MaxSettlements
       /\ \E c \in Holders, b \in Holders, t \in TradedTokens, d \in Deadlines :
             createEscrow(c, b, NFT, t, d, 1000)
    \/ \E c \in Holders, id \in AllEscrowIds : approveEscrow(c, id)
    \/ \E c \in Holders, id \in AllEscrowIds : cancelEscrow(c, id)

SpecCrossEngine == Init /\ [][NextCrossEngine]_vars

\* The offers of the marketplace alone, with room for several offers of
\* the holders and for one of the vault, which cannot be paid back.
OfferPayments == {0} \cup Prices
VaultOffers == Len(Get(userOffers, VAULT, <<>>))

NextOffers ==
    \/ Tick
    \/ \E c \in Holders, t \in TradedTokens : approve(c, MARKET, t)
    \/ \E c \in Accounts : marketSetContractWhitelist(c, NFT, TRUE)
    \/ /\ OffersMade < MaxBids
       /\ \E c \in Holders, t \in TradedTokens, d \in Durations, v \in OfferPayments :
             createOffer(c, NFT, t, d, v)
    \/ /\ VaultOffers < MaxOffers
       /\ \E t \in TradedTokens, d \in Durations : createOffer(VAULT, NFT, t, d, 1000)
    \/ \E c \in Accounts, id \in DOMAIN offers : cancelOffer(c, id)
    \/ /\ totalSales < MaxSales
       /\ \E c \in Accounts, id \in DOMAIN offers, ext \in RegistryAnswers :
             acceptOffer(c, id, ext)

SpecOffers == Init /\ [][NextOffers]_vars

\* The royalty engine alone, while the registry's assets move between holders.
NextRoyalty ==
    \/ \E c \in Accounts, r \in RoyaltyRecords : setDefaultRoyalty(c, r.recipient, r.percentage)
    \/ \E c \in Accounts, r \in RoyaltyRecords :
          setContractRoyalty(c, NFT, r.recipient, r.percentage)
    \/ \E c \in Accounts, t \in TokenIds, r \in RoyaltyRecords :
          setTokenRoyalty(c, NFT, t, r.recipient, r.percentage)
    \/ \E c \in Accounts : removeContractRoyalty(c, NFT)
    \/ \E c \in Accounts, t \in TokenIds : removeTokenRoyalty(c, NFT, t)
    \/ \E c \in Holders, to \in Holders, t \in TokenIds : transferFrom(c, c, to, t)

SpecRoyalty == Init /\ [][NextRoyalty]_vars

\* The royalty engine's records under every operation that writes them, for
\* two registries, one of which answers no ownership query, while an asset
\* of the other is moved between holders and burned.
NextRoyaltyAdmin ==
    \/ \E c \in Accounts, r \in AdminRecords : setDefaultRoyalty(c, r.recipient, r.percentage)
    \/ \E c \in Accounts, n \in {NFT, PLAIN}, r \in AdminRecords :
          setContractRoyalty(c, n, r.recipient, r.percentage)
    \/ \E c \in Accounts, n \in {NFT, PLAIN}, t \in TokenIds, r \in AdminRecords :
          setTokenRoyalty(c, n, t, r.recipient, r.percentage)
    \/ \E c \in Accounts, b \in Batches :
          batchSetContractRoyalties(c, b.nftContracts, b.recipients, b.percentages)
    \/ \E c \in Accounts, n \in {NFT, PLAIN} : removeContractRoyalty(c, n)
    \/ \E c \in Accounts, n \in {NFT, PLAIN}, t \in TokenIds : removeTokenRoyalty(c, n, t)
    \/ \E c \in Holders, to \in Holders, t \in TradedTokens : transferFrom(c, c, to, t)
    \/ \E c \in Holders, t \in TradedTokens : burn(c, t)

SpecRoyaltyAdmin == Init /\ [][NextRoyaltyAdmin]_vars
(***************************************************************************)
(* Properties of the escrow engine.                                        *)
(***************************************************************************)
\* the ids createEscrow has handed out
EscrowIds == 1..(nextEscrowId - 1)

\* a call of the operation by `caller` would go through in the current state
ApproveSucceeds(caller, escrowId) == ENABLED approveEscrow(caller, escrowId)
CancelSucceeds(caller, escrowId) == ENABLED cancelEscrow(caller, escrowId)
DisputeSucceeds(caller, escrowId) == ENABLED initiateDispute(caller, escrowId)
ResolveSucceeds(caller, escrowId, favorBuyer) == ENABLED resolveDispute(caller, escrowId, favorBuyer)

StatusTransitions ==
    { <<"Active", "Completed">>, <<"Active", "Cancelled">>, <<"Active", "Disputed">>,
      <<"Disputed", "Completed">>, <<"Disputed", "Cancelled">> }

\* C3: the status of an escrow changes only along Active -> Completed,
\* Active -> Cancelled, Active -> Disputed, Disputed -> Completed and
\* Disputed -> Cancelled, the last two only in a resolveDispute call of the
\* dispute resolver; on a Completed or Cancelled escrow no approveEscrow,
\* cancelEscrow, initiateDispute or resolveDispute call of any caller goes
\* through, and its record never changes again.
C3_StatusMachine ==
    /\ [](\A id \in EscrowIds :
            EscrowAt(id).status \in {"Completed", "Cancelled"} =>
                \A c \in Accounts :
                    /\ ~ApproveSucceeds(c, id)
                    /\ ~CancelSucceeds(c, id)
                    /\ ~DisputeSucceeds(c, id)
                    /\ \A f \in BOOLEAN : ~ResolveSucceeds(c, id, f))
    /\ [][\A id \in EscrowIds :
            /\ EscrowAt(id).status # EscrowAt(id)'.status =>
                  <<EscrowAt(id).status, EscrowAt(id)'.status>> \in StatusTransitions
            /\ (EscrowAt(id).status = "Disputed" /\ EscrowAt(id)'.status # "Disputed") =>
                  \E f \in BOOLEAN : resolveDispute(disputeResolver, id, f)
            /\ EscrowAt(id).status \in {"Completed", "Cancelled"} =>
                  EscrowAt(id)' = EscrowAt(id)
        ]_vars

\* an escrow was disputed and resolved, another completed by approvals, and
\* time has passed since
C3_Witness ==
    /\ \E id \in EscrowIds : EscrowAt(id).status = "Cancelled"
    /\ \E id \in EscrowIds : EscrowAt(id).status = "Completed"
    /\ now = MaxTime

\* C4 as stated: an escrow is Completed if and only if both approval flags
\* are set.
C4_CompletedIffBothApproved ==
    \A id \in EscrowIds :
        EscrowAt(id).status = "Completed" <=>
            (EscrowAt(id).sellerApproved /\ EscrowAt(id).buyerApproved)

\* C4 (amended): an escrow with both approval flags set is Completed; an
\* Active escrow becomes Completed only in a step that leaves both flags set;
\* an escrow is Completed with fewer than two approvals only when the dispute
\* resolver resolved it from Disputed in favour of the buyer.
C4_CompletionByApprovals ==
    [][\A id \in EscrowIds' :
          /\ (EscrowAt(id)'.sellerApproved /\ EscrowAt(id)'.buyerApproved) =>
                EscrowAt(id)'.status = "Completed"
          /\ (EscrowAt(id).status = "Active" /\ EscrowAt(id)'.status = "Completed") =>
                (EscrowAt(id)'.sellerApproved /\ EscrowAt(id)'.buyerApproved)
          /\ ( /\ EscrowAt(id).status # "Completed"
               /\ EscrowAt(id)'.status = "Completed"
               /\ ~(EscrowAt(id)'.sellerApproved /\ EscrowAt(id)'.buyerApproved) ) =>
                /\ EscrowAt(id).status = "Disputed"
                /\ resolveDispute(disputeResolver, id, TRUE)
      ]_vars

\* an escrow completed by the two approvals, next to one on which only one
\* party has approved
C4_Witness ==
    /\ \E id \in EscrowIds :
          /\ EscrowAt(id).status = "Completed"
          /\ EscrowAt(id).sellerApproved
          /\ EscrowAt(id).buyerApproved
    /\ \E id \in EscrowIds :
          /\ EscrowAt(id).status = "Active"
          /\ EscrowAt(id).sellerApproved # EscrowAt(id).buyerApproved

\* the ledger after `from` has paid out `toFirst` to `first` and `toSecond`
\* to `second`
Settled(bal, from, first, toFirst, second, toSecond) ==
    [a \in Addresses |->
        bal[a] + (IF a = first THEN toFirst ELSE 0)
               + (IF a = second THEN toSecond ELSE 0)
               - (IF a = from THEN toFirst + toSecond ELSE 0)]

\* fee is price * bps / 10000 rounded down
IsFloorFee(fee, price, bps) ==
    /\ fee \in 0..price
    /\ fee * 10000 <= price * bps
    /\ price * bps < (fee + 1) * 10000

\* the step completes escrow id, paying fee to the fee recipient
CompletionPayout(id, fee) ==
    /\ EscrowAt(id)'.status = "Completed"
    /\ ownerOf'[EscrowAt(id).tokenId] = EscrowAt(id).buyer
    /\ balance' = Settled(balance, ESCROW, EscrowAt(id).seller, EscrowAt(id).price - fee,
                          escrowFeeRecipient, fee)

\* the step cancels escrow id
CancellationPayout(id) ==
    /\ EscrowAt(id)'.status = "Cancelled"
    /\ ownerOf'[EscrowAt(id).tokenId] = EscrowAt(id).seller
    /\ balance' = Settled(balance, ESCROW, EscrowAt(id).buyer, EscrowAt(id).price,
                          escrowFeeRecipient, 0)

\* C5: a step in which an escrow completes (the second approveEscrow, or
\* resolveDispute with favorBuyer = true) makes the recorded buyer the owner
\* of the asset, pays the fee recipient fee = floor(price * feeBps / 10000)
\* and the seller price - fee out of the engine, and sets the status to
\* Completed; with price 1.0 at the default 2.5% the fee is 0.025 and the
\* seller's amount 0.975.
C5_CompletionPayout ==
    [][\A id \in EscrowIds :
          ( \/ \E c \in Accounts :
                  approveEscrow(c, id) /\ EscrowAt(id)'.status # EscrowAt(id).status
            \/ \E c \in Accounts : resolveDispute(c, id, TRUE) ) =>
              \E fee \in 0..EscrowAt(id).price :
                  /\ IsFloorFee(fee, EscrowAt(id).price, escrowFeePercentage)
                  /\ CompletionPayout(id, fee)
                  /\ (EscrowAt(id).price = 1000 /\ escrowFeePercentage = DefaultFeePercentage) =>
                        (fee = 25 /\ EscrowAt(id).price - fee = 975)
      ]_vars

\* an escrow of price 1.0 has completed at the default fee: 0.025 has
\* reached the treasury, 0.975 the seller, and the buyer owns the asset
C5_Witness ==
    \E id \in EscrowIds :
        /\ EscrowAt(id).status = "Completed"
        /\ EscrowAt(id).price = 1000
        /\ escrowFeePercentage = DefaultFeePercentage
        /\ ownerOf[EscrowAt(id).tokenId] = EscrowAt(id).buyer
        /\ balance["treasury"] = 25
        /\ balance[EscrowAt(id).seller] = InitialFunds - 1000 + 975
        /\ balance[ESCROW] = 0

\* C6: a cancelEscrow call that goes through gives the asset back to the
\* recorded seller, pays the whole held price to the recorded buyer, pays the
\* fee recipient nothing, and sets the status to Cancelled.
C6_CancellationPayout ==
    [][\A id \in EscrowIds, c \in Accounts :
          cancelEscrow(c, id) =>
              /\ EscrowAt(id).status = "Active"
              /\ CancellationPayout(id)
              /\ escrowFeeRecipient # EscrowAt(id).buyer =>
                    balance'[escrowFeeRecipient] = balance[escrowFeeRecipient]
      ]_vars

\* an escrow of price 1.0 is Cancelled: the buyer holds 1.0 more than at the
\* start and the asset is back with the seller
C6_Witness ==
    \E id \in EscrowIds :
        /\ EscrowAt(id).status = "Cancelled"
        /\ EscrowAt(id).price = 1000
        /\ ~EscrowAt(id).sellerApproved /\ ~EscrowAt(id).buyerApproved
        /\ nextEscrowId = 2
        /\ balance[EscrowAt(id).buyer] = InitialFunds + 1000
        /\ ownerOf[EscrowAt(id).tokenId] = EscrowAt(id).seller
        /\ balance["treasury"] = 0

IsParty(caller, id) == caller = EscrowAt(id).seller \/ caller = EscrowAt(id).buyer

\* C7 as stated: on an Active escrow cancelEscrow goes through for the seller
\* and for the buyer at any time, and for any other caller exactly when
\* now > deadline; on an escrow that is not Active it goes through for nobody.
C7_CancelAuthorization ==
    \A id \in EscrowIds, c \in Accounts :
        /\ (EscrowAt(id).status = "Active" /\ IsParty(c, id)) => CancelSucceeds(c, id)
        /\ (EscrowAt(id).status = "Active" /\ ~IsParty(c, id)) =>
              (CancelSucceeds(c, id) <=> now > EscrowAt(id).deadline)
        /\ EscrowAt(id).status # "Active" => ~CancelSucceeds(c, id)

\* C8: an initiateDispute call goes through only for the seller or the buyer
\* of an Active escrow while now <= deadline + disputeWindow; it sets the
\* status to Disputed and leaves the approval flags, the asset and every
\* balance as they were.  Once now > deadline + disputeWindow it goes through
\* for no caller.
C8_DisputeWindow ==
    /\ [](\A id \in EscrowIds, c \in Accounts :
            now > EscrowAt(id).deadline + disputeWindow => ~DisputeSucceeds(c, id))
    /\ [][\A id \in AllEscrowIds, c \in Accounts :
            initiateDispute(c, id) =>
                /\ id \in EscrowIds
                /\ IsParty(c, id)
                /\ EscrowAt(id).status = "Active"
                /\ now <= EscrowAt(id).deadline + disputeWindow
                /\ EscrowAt(id)' = [EscrowAt(id) EXCEPT !.status = "Disputed"]
                /\ UNCHANGED <<balance, ownerOf>>
        ]_vars

\* an escrow was disputed in the last moment of its dispute window
C8_Witness ==
    \E id \in EscrowIds :
        /\ EscrowAt(id).status = "Disputed"
        /\ now = EscrowAt(id).deadline + disputeWindow
        /\ ownerOf[EscrowAt(id).tokenId] = ESCROW
        /\ balance[ESCROW] >= EscrowAt(id).price

\* C9: a resolveDispute call goes through only for the current dispute
\* resolver on a Disputed escrow; with favorBuyer = true it makes the
\* completion payout, with favorBuyer = false the cancellation payout with no
\* fee; it goes through for no caller other than the resolver, be it seller,
\* buyer or owner.
C9_ResolverOnly ==
    /\ [](\A id \in AllEscrowIds, c \in Accounts, f \in BOOLEAN :
            (c # disputeResolver \/ EscrowAt(id).status # "Disputed") =>
                ~ResolveSucceeds(c, id, f))
    /\ [][\A id \in AllEscrowIds, c \in Accounts, f \in BOOLEAN :
            resolveDispute(c, id, f) =>
                /\ c = disputeResolver
                /\ id \in EscrowIds
                /\ EscrowAt(id).status = "Disputed"
                /\ f => \E fee \in 0..EscrowAt(id).price :
                            /\ IsFloorFee(fee, EscrowAt(id).price, escrowFeePercentage)
                            /\ CompletionPayout(id, fee)
                /\ ~f => CancellationPayout(id)
        ]_vars

\* one dispute was resolved for the buyer and one for the seller
C9_Witness ==
    /\ \E id \in EscrowIds :
          /\ EscrowAt(id).status = "Completed"
          /\ ~(EscrowAt(id).sellerApproved /\ EscrowAt(id).buyerApproved)
    /\ \E id \in EscrowIds :
          /\ EscrowAt(id).status = "Cancelled"
          /\ now <= EscrowAt(id).deadline
          /\ balance[ESCROW] = 0

\* C10: an approveEscrow call goes through only for an id that createEscrow
\* has handed out (so neither 0 nor an id from the next id on), on an Active
\* escrow, for its seller or its buyer; it sets the caller's approval flag and
\* leaves the other party's flag as it was.
C10_ApproveOwnFlag ==
    /\ [](\A id \in AllEscrowIds, c \in Accounts :
            (id = 0 \/ id >= nextEscrowId \/ EscrowAt(id).status # "Active" \/ ~IsParty(c, id)) =>
                ~ApproveSucceeds(c, id))
    /\ [][\A id \in AllEscrowIds, c \in Accounts :
            approveEscrow(c, id) =>
                /\ c = EscrowAt(id).seller =>
                      /\ EscrowAt(id)'.sellerApproved
                      /\ EscrowAt(id)'.buyerApproved = EscrowAt(id).buyerApproved
                /\ c = EscrowAt(id).buyer =>
                      /\ EscrowAt(id)'.buyerApproved
                      /\ EscrowAt(id)'.sellerApproved = EscrowAt(id).sellerApproved
        ]_vars

\* the buyer alone has approved the second escrow
C10_Witness ==
    /\ nextEscrowId = 3
    /\ EscrowAt(2).status = "Active"
    /\ EscrowAt(2).buyerApproved
    /\ ~EscrowAt(2).sellerApproved

(***************************************************************************)
(* Properties of settlement in both engines.                               *)
(***************************************************************************)
\* what address a gains and loses in a sequence of transfers
\* [from, to, amount]
RECURSIVE NetFlow(_, _)
NetFlow(transfers, a) ==
    IF transfers = <<>> THEN 0
    ELSE (IF Head(transfers).to = a THEN Head(transfers).amount ELSE 0)
         - (IF Head(transfers).from = a THEN Head(transfers).amount ELSE 0)
         + NetFlow(Tail(transfers), a)

After(bal, transfers) == [a \in Addresses |-> bal[a] + NetFlow(transfers, a)]

Transfer(from, to, amount) == [from |-> from, to |-> to, amount |-> amount]

\* the step pays `price`, which `payer` hands to or has left with `engine`,
\* out in full: sellerAmount to the seller, fee to the fee recipient and
\* royaltyPaid to the royalty recipient, and these add up to the price
PaidOutInFull(payer, engine, price, seller, sellerAmount, feeTo, fee, royaltyTo, royaltyPaid) ==
    /\ sellerAmount >= 0 /\ fee >= 0 /\ royaltyPaid >= 0
    /\ sellerAmount + fee + royaltyPaid = price
    /\ balance' = After(balance,
          << Transfer(payer, engine, price),
             Transfer(engine, seller, sellerAmount),
             Transfer(engine, feeTo, fee),
             Transfer(engine, royaltyTo, royaltyPaid) >>)

\* C1: every settlement pays out exactly the sale price, split into the
\* seller's amount, the fee and the royalty: a buyItem call pays the listing
\* price out of what the buyer sent, an acceptOffer call the offer amount out
\* of the engine, an escrow completion (second approveEscrow, or
\* resolveDispute for the buyer) the escrow price out of the engine with no
\* royalty; the three amounts add up to the price, and no balance changes
\* otherwise.
C1_SplitAddsUp ==
    [][/\ totalSales' # totalSales =>
            /\ \A c \in Accounts, id \in AllListingIds, v \in Payments, ext \in RegistryAnswers :
                  buyItem(c, id, v, ext) =>
                      LET price == ListingAt(id).price
                          fee == (price * marketplaceFeePercentage) \div 10000
                          royalty == SaleRoyalty(ListingAt(id).nftContract,
                                                 ListingAt(id).tokenId, price, ext)
                          actuallyPaid == IF royalty.recipient # ZERO THEN royalty.amount ELSE 0
                      IN  PaidOutInFull(c, MARKET, price, ListingAt(id).seller,
                                        price - fee - actuallyPaid, marketFeeRecipient, fee,
                                        royalty.recipient, actuallyPaid)
            /\ \A c \in Accounts, id \in AllOfferIds, ext \in RegistryAnswers :
                  acceptOffer(c, id, ext) =>
                      LET price == OfferAt(id).amount
                          fee == (price * marketplaceFeePercentage) \div 10000
                          royalty == SaleRoyalty(OfferAt(id).nftContract,
                                                 OfferAt(id).tokenId, price, ext)
                          actuallyPaid == IF royalty.recipient # ZERO THEN royalty.amount ELSE 0
                      IN  PaidOutInFull(MARKET, MARKET, price, c,
                                        price - fee - actuallyPaid, marketFeeRecipient, fee,
                                        royalty.recipient, actuallyPaid)
       /\ escrowTransactions' # escrowTransactions =>
            \A id \in EscrowIds :
                (EscrowAt(id).status # "Completed" /\ EscrowAt(id)'.status = "Completed") =>
                    LET price == EscrowAt(id).price
                        fee == (price * escrowFeePercentage) \div 10000
                    IN  PaidOutInFull(ESCROW, ESCROW, price, EscrowAt(id).seller,
                                      price - fee, escrowFeeRecipient, fee, ZERO, 0)
      ]_vars

\* a listing of price 1.0 was bought at a 10% fee with a 10% royalty: the
\* seller has 0.8 more, the treasury 0.1, the royalty recipient 0.1, the
\* buyer 1.0 less, and the marketplace holds nothing
C1_Witness ==
    /\ totalSales = 1
    /\ totalVolume = 1000
    /\ OffersMade = 0
    /\ balance[MARKET] = 0
    /\ balance["alice"] = InitialFunds + 800
    /\ balance["treasury"] = 100
    /\ balance["carol"] = InitialFunds + 100
    /\ balance["bob"] = InitialFunds - 1000
    /\ ownerOf[1] = "bob"

RECURSIVE Sum(_, _)
Sum(f, S) ==
    IF S = {} THEN 0
    ELSE LET x == CHOOSE y \in S : TRUE IN f[x] + Sum(f, S \ {x})

\* a record that was created and has been terminated
ListingOver(id) == ListingAt(id).seller # ZERO /\ ~ListingAt(id).active
OfferOver(id) == OfferAt(id).buyer # ZERO /\ ~OfferAt(id).active
EscrowOpen(id) == id \in EscrowIds /\ EscrowAt(id).status \in {"Active", "Disputed"}
EscrowOver(id) == id \in EscrowIds /\ EscrowAt(id).status \in {"Completed", "Cancelled"}

\* the payments the engines hold for records that are still open
HeldForOffers ==
    Sum([id \in AllOfferIds |-> IF OfferAt(id).active THEN OfferAt(id).amount ELSE 0],
        AllOfferIds)
HeldForEscrows ==
    Sum([id \in EscrowIds |-> IF EscrowOpen(id) THEN EscrowAt(id).price ELSE 0], EscrowIds)

\* C2: of two operations that would each terminate the same record, only the
\* first goes through: once a listing has been bought or cancelled no buyItem
\* and no cancelListing call on it goes through, once an offer has been
\* accepted or cancelled no acceptOffer and no cancelOffer call on it goes
\* through, once an escrow is Completed or Cancelled no approveEscrow,
\* cancelEscrow or resolveDispute call on it goes through.  The payment held
\* for an offer or an escrow leaves the engine at most once: an engine's
\* balance goes down only in a step that terminates an open record, by exactly
\* the amount held for it, and the engine always holds at least what it owes
\* to the records still open.
C2_NoDoubleSpend ==
    /\ [](/\ \A id \in AllListingIds :
                ListingOver(id) =>
                    /\ \A c \in Accounts : ~ENABLED cancelListing(c, id)
                    /\ \A c \in Accounts, v \in Payments, ext \in RegistryAnswers :
                          ~ENABLED buyItem(c, id, v, ext)
          /\ \A id \in AllOfferIds :
                OfferOver(id) =>
                    /\ \A c \in Accounts : ~ENABLED cancelOffer(c, id)
                    /\ \A c \in Accounts, ext \in RegistryAnswers : ~ENABLED acceptOffer(c, id, ext)
          /\ \A id \in EscrowIds :
                EscrowOver(id) =>
                    \A c \in Accounts :
                        /\ ~ApproveSucceeds(c, id)
                        /\ ~CancelSucceeds(c, id)
                        /\ \A f \in BOOLEAN : ~ResolveSucceeds(c, id, f)
          /\ balance[MARKET] >= HeldForOffers
          /\ balance[ESCROW] >= HeldForEscrows)
    /\ [][/\ balance'[MARKET] < balance[MARKET] =>
                \E id \in AllOfferIds :
                    /\ OfferAt(id).active
                    /\ OfferOver(id)'
                    /\ balance[MARKET] - balance'[MARKET] = OfferAt(id).amount
          /\ balance'[ESCROW] < balance[ESCROW] =>
                \E id \in EscrowIds :
                    /\ EscrowOpen(id)
                    /\ EscrowOver(id)'
                    /\ balance[ESCROW] - balance'[ESCROW] = EscrowAt(id).price
        ]_vars

\* an offer of 1.0 was accepted before it expired and paid out: it is no
\* longer active and the marketplace holds nothing
C2_Witness ==
    \E id \in AllOfferIds :
        /\ OfferOver(id)
        /\ OfferAt(id).amount = 1000
        /\ OfferAt(id).expiresAt > now
        /\ totalSales = 1
        /\ ownerOf[OfferAt(id).tokenId] = OfferAt(id).buyer
        /\ balance[MARKET] = 0

(***************************************************************************)
(* Properties of escrow creation.                                          *)
(***************************************************************************)
\* C11: a createEscrow call goes through only when buyer # caller, the
\* registry is whitelisted, the payment is positive, deadline > now, the
\* caller owns the asset and the engine is authorized to move it (a call that
\* does not go through changes nothing).  When it goes through it hands out
\* the id nextEscrowId, which is one more than the last id handed out (the
\* first is 1) and which no record has yet, leaves every earlier record as it
\* was, records the escrow as Active with both approval flags false and the
\* payment as its price, and makes the engine the owner of the asset.
C11_CreateEscrow ==
    /\ [](/\ nextEscrowId >= 1
          /\ DOMAIN escrowTransactions = EscrowIds)
    /\ [][/\ nextEscrowId' >= nextEscrowId
          /\ nextEscrowId' # nextEscrowId =>
                \A c \in Accounts, b \in EscrowBuyers, t \in TradedTokens,
                   v \in Prices \cup {0}, d \in Deadlines :
                    createEscrow(c, b, NFT, t, d, v) =>
                        /\ b # c
                        /\ escrowWhitelisted[NFT]
                        /\ v > 0
                        /\ d > now
                        /\ ownerOf[t] = c
                        /\ (tokenApproval[t] = ESCROW \/ isApprovedForAll(c, ESCROW))
                        /\ nextEscrowId' = nextEscrowId + 1
                        /\ nextEscrowId \notin EscrowIds
                        /\ \A id \in EscrowIds : EscrowAt(id)' = EscrowAt(id)
                        /\ \A new \in {nextEscrowId} :
                              /\ EscrowAt(new)'.status = "Active"
                              /\ ~EscrowAt(new)'.sellerApproved
                              /\ ~EscrowAt(new)'.buyerApproved
                              /\ EscrowAt(new)'.price = v
                              /\ EscrowAt(new)'.seller = c
                              /\ EscrowAt(new)'.buyer = b
                        /\ ownerOf'[t] = ESCROW
        ]_vars

\* a second escrow has just been created after the first one was cancelled:
\* it has id 2, is Active with no approval, and the engine owns the asset
C11_Witness ==
    /\ nextEscrowId = 3
    /\ EscrowAt(1).status = "Cancelled"
    /\ EscrowAt(2).status = "Active"
    /\ ~EscrowAt(2).sellerApproved /\ ~EscrowAt(2).buyerApproved
    /\ EscrowAt(2).price = 1000
    /\ ownerOf[EscrowAt(2).tokenId] = ESCROW
    /\ balance[ESCROW] = 1000

(***************************************************************************)
(* Properties of the marketplace's listings and offers.                    *)
(***************************************************************************)
\* the listings of an asset that are active
ActiveListings(nftContract, tokenId) ==
    {id \in DOMAIN listings : /\ listings[id].active
                              /\ listings[id].nftContract = nftContract
                              /\ listings[id].tokenId = tokenId}

\* C12: after any sequence of listItem, buyItem, cancelListing, updateListing,
\* acceptOffer and transfers of the asset outside the marketplace, an asset
\* has at most one active listing, and it is the one the marketplace's index
\* of the asset names.
C12_OneActiveListing ==
    \A t \in TokenIds :
        /\ Cardinality(ActiveListings(NFT, t)) <= 1
        /\ ActiveListings(NFT, t) \subseteq {TokenListing(NFT, t)}

\* the asset was listed, given away outside the marketplace and listed again
\* by its new owner: the first listing is inactive, the second is active
C12_Witness ==
    \E old \in DOMAIN listings, new \in DOMAIN listings :
        /\ old # new
        /\ listings[old].tokenId = listings[new].tokenId
        /\ listings[old].seller # listings[new].seller
        /\ ~listings[old].active
        /\ listings[new].active
        /\ totalSales = 0
        /\ ActiveListings(NFT, listings[new].tokenId) = {new}

\* a listItem call by the asset's owner that meets the conditions on price,
\* duration, whitelist and authorization while the asset has an active listing
RelistCall(c, t, p, d) ==
    /\ ~marketPaused
    /\ ownerOf[t] = c
    /\ marketWhitelisted[NFT]
    /\ p > 0
    /\ d > 0
    /\ EngineApproved(MARKET, c, t)
    /\ ActiveListings(NFT, t) # {}

\* C13: such a call succeeds however much time has passed since the prior
\* listing was created (also when none has).
C13_RelistAlwaysSucceeds ==
    \A c \in Holders, t \in TradedTokens, p \in Prices, d \in Durations :
        RelistCall(c, t, p, d) => ENABLED listItem(c, NFT, t, p, d)

\* What listItem does do in that case: the call succeeds when the block
\* timestamp differs from the one at which the asset's active listing was
\* created, and is rejected ("Already listed") when it is the same, because
\* the two listings would have the same id.  A call that succeeds deactivates
\* the prior listing and leaves the new listing as the asset's only active one.
RelistAtLaterTime ==
    /\ [](\A c \in Holders, t \in TradedTokens, p \in Prices, d \in Durations :
            RelistCall(c, t, p, d) =>
                \A old \in ActiveListings(NFT, t) :
                    (listings[old].createdAt # now) <=> ENABLED listItem(c, NFT, t, p, d))
    /\ [][totalListings' # totalListings =>
            \A c \in Holders, t \in TradedTokens, p \in Prices, d \in Durations :
                (RelistCall(c, t, p, d) /\ listItem(c, NFT, t, p, d)) =>
                    /\ \A old \in ActiveListings(NFT, t) :
                          /\ listings[old].createdAt < now
                          /\ ~listings'[old].active
                    /\ ActiveListings(NFT, t)' = {ListingIdOf(NFT, t, now)}
                    /\ TokenListing(NFT, t)' = ListingIdOf(NFT, t, now)
                    /\ listings'[ListingIdOf(NFT, t, now)].seller = c
                    /\ listings'[ListingIdOf(NFT, t, now)].price = p
        ]_vars

\* the seller has just listed the asset a second time: the first listing,
\* made at an earlier time, is inactive and the second is active
C13_Witness ==
    \E old \in DOMAIN listings, new \in DOMAIN listings :
        /\ old # new
        /\ listings[old].seller = listings[new].seller
        /\ userListings[listings[new].seller] = <<old, new>>
        /\ listings[old].createdAt < listings[new].createdAt
        /\ listings[new].createdAt = now
        /\ ~listings[old].active
        /\ listings[new].active
        /\ TokenListing(NFT, listings[new].tokenId) = new
        /\ totalSales = 0
        /\ OffersMade = 0

\* C14: a buyItem call does not go through (and so leaves the listing, the
\* totals, the balances and the ownership of the asset as they are) when the
\* listing is inactive, when it is expired (now >= expiresAt), when the
\* payment is less than the listing's price, when the caller is the
\* listing's seller, or when the seller is not the asset's current owner.
C14_BuyItemRejected ==
    \A c \in Holders \cup {"carol"}, id \in DOMAIN listings, v \in Payments,
       ext \in RegistryAnswers :
        (\/ ~listings[id].active
         \/ now >= listings[id].expiresAt
         \/ v < listings[id].price
         \/ c = listings[id].seller
         \/ ownerOf[listings[id].tokenId] # listings[id].seller)
            => ~ENABLED buyItem(c, id, v, ext)

\* an active, unexpired listing whose seller gave the asset away outside the
\* marketplace: the full price is refused, as is a short payment
C14_Witness ==
    \E id \in DOMAIN listings :
        /\ listings[id].active
        /\ listings[id].expiresAt > now
        /\ listings[id].price = 1000
        /\ ownerOf[listings[id].tokenId] # listings[id].seller
        /\ tokenApproval[listings[id].tokenId] = MARKET
        /\ \A ext \in RegistryAnswers : ~ENABLED buyItem("carol", id, 1000, ext)
        /\ \A ext \in RegistryAnswers : ~ENABLED buyItem("carol", id, 39, ext)

\* what each account gains in the step
Gain == [a \in Addresses |-> balance'[a] - balance[a]]

\* C15: a buyItem call that goes through was sent at least the listing's
\* price and refunds exactly payment - price, so that the buyer is out of
\* pocket by exactly the price (less what the buyer receives as fee or
\* royalty recipient); the marketplace's own balance is the same after the
\* call as before; and the accounts other than the buyer and the
\* marketplace gain exactly the price between them, all of it going to the
\* seller, the fee recipient and the royalty recipient.
C15_ExactRefund ==
    [][totalSales' # totalSales =>
          \A c \in Holders \cup {"carol"}, id \in AllListingIds, v \in Payments,
             ext \in RegistryAnswers :
              buyItem(c, id, v, ext) =>
                  LET price == ListingAt(id).price
                      royalty == SaleRoyalty(NFT, ListingAt(id).tokenId, price, ext)
                      toBuyer == (IF marketFeeRecipient = c THEN MarketFee(price) ELSE 0)
                                 + (IF royalty.recipient = c THEN royalty.amount ELSE 0)
                      refund == v - price
                      payees == {ListingAt(id).seller, marketFeeRecipient, royalty.recipient}
                  IN  /\ refund >= 0
                      /\ balance'[c] = balance[c] - v + refund + toBuyer
                      /\ balance[c] - balance'[c] = price - toBuyer
                      /\ balance'[MARKET] = balance[MARKET]
                      /\ Sum(Gain, Addresses \ {c, MARKET}) = price - toBuyer
                      /\ \A a \in Addresses \ ({c, MARKET} \cup payees) : Gain[a] = 0
                      /\ \A a \in (payees \cap Addresses) \ {c} : Gain[a] >= 0
      ]_vars

\* a listing of price 1.0 was bought at the fee of 2.5% with no royalty: the
\* buyer has exactly 1.0 less whatever was sent, the seller 0.975 more, the
\* treasury 0.025, and the marketplace holds nothing
C15_Witness ==
    /\ totalSales = 1
    /\ totalVolume = 1000
    /\ OffersMade = 0
    /\ balance[MARKET] = 0
    /\ balance["bob"] = InitialFunds - 1000
    /\ balance["alice"] = InitialFunds + 975
    /\ balance["treasury"] = 25
    /\ balance["carol"] = InitialFunds
    /\ ownerOf[1] = "bob"

\* C16: an acceptOffer call goes through only on an offer that is active
\* and unexpired, made by the asset's current owner who has authorized the
\* marketplace.  It makes the offer's buyer the owner of the asset, pays the
\* caller the offer's amount less fee and royalty and the fee and the
\* royalty to their recipients out of the marketplace's balance, deactivates
\* the offer, and leaves the asset with no active listing and no listing in
\* the marketplace's index, so that no listing of it can be bought.
C16_AcceptOffer ==
    [][offers' # offers =>
          \A c \in Accounts, id \in AllOfferIds, ext \in RegistryAnswers :
              acceptOffer(c, id, ext) =>
                  LET offer == OfferAt(id)
                      fee == (offer.amount * marketplaceFeePercentage) \div 10000
                      royalty == SaleRoyalty(NFT, offer.tokenId, offer.amount, ext)
                  IN  /\ offer.active
                      /\ offer.expiresAt > now
                      /\ ownerOf[offer.tokenId] = c
                      /\ (tokenApproval[offer.tokenId] = MARKET
                            \/ isApprovedForAll(c, MARKET))
                      /\ ownerOf'[offer.tokenId] = offer.buyer
                      /\ offer.amount - fee - royalty.amount >= 0
                      /\ balance' = After(balance,
                            << Transfer(MARKET, c, offer.amount - fee - royalty.amount),
                               Transfer(MARKET, marketFeeRecipient, fee),
                               Transfer(MARKET, royalty.recipient, royalty.amount) >>)
                      /\ (royalty.amount > 0 => royalty.recipient \in Addresses)
                      /\ ~OfferAt(id)'.active
                      /\ ActiveListings(NFT, offer.tokenId)' = {}
                      /\ TokenListing(NFT, offer.tokenId)' = ZeroId
                      /\ \A l \in ActiveListings(NFT, offer.tokenId) :
                            ~ListingAt(l)'.active /\ ~validListing(l)'
      ]_vars

\* the seller accepted an offer of 1.0 with a 10% royalty while the asset's
\* listing was still unexpired: the bidder owns the asset, the offer and the
\* listing are inactive, the seller has 0.875 more, the treasury 0.025, the
\* royalty recipient 0.1
C16_Witness ==
    \E id \in DOMAIN offers, l \in DOMAIN listings :
        /\ ~offers[id].active
        /\ offers[id].amount = 1000
        /\ ownerOf[offers[id].tokenId] = offers[id].buyer
        /\ listings[l].tokenId = offers[id].tokenId
        /\ listings[l].seller # offers[id].buyer
        /\ ~listings[l].active
        /\ listings[l].expiresAt > now
        /\ totalSales = 1
        /\ totalVolume = 1000
        /\ balance[listings[l].seller] = InitialFunds + 875
        /\ balance[offers[id].buyer] = InitialFunds - 1000
        /\ balance["treasury"] = 25
        /\ balance["carol"] = InitialFunds + 100
        /\ balance[MARKET] = 0

\* C17: createOffer followed by cancelOffer is a round trip on funds.  A
\* createOffer call moves exactly its payment from the caller to the
\* marketplace and records it as the amount of an active offer of the
\* caller's.  A cancelOffer call goes through only for the offer's buyer or
\* the marketplace's owner and only on an active offer; it pays exactly the
\* offer's amount out of the marketplace to the offer's buyer (whoever
\* called) and sets the offer inactive.  On an inactive offer every
\* cancelOffer and every acceptOffer call fails.
C17_OfferRoundTrip ==
    /\ [](\A id \in DOMAIN offers :
            ~offers[id].active =>
                \A c \in Accounts :
                    /\ ~ENABLED cancelOffer(c, id)
                    /\ \A ext \in RegistryAnswers : ~ENABLED acceptOffer(c, id, ext))
    /\ [][offers' # offers =>
            /\ \A c \in Holders \cup {VAULT}, t \in TradedTokens, d \in Durations, v \in Prices :
                  createOffer(c, NFT, t, d, v) =>
                      /\ balance' = After(balance, << Transfer(c, MARKET, v) >>)
                      /\ offers'[OfferIdOf(c, NFT, t, now)].active
                      /\ offers'[OfferIdOf(c, NFT, t, now)].buyer = c
                      /\ offers'[OfferIdOf(c, NFT, t, now)].amount = v
            /\ \A c \in Accounts, id \in DOMAIN offers :
                  cancelOffer(c, id) =>
                      /\ (c = OfferAt(id).buyer \/ c = OWNER)
                      /\ OfferAt(id).active
                      /\ balance' = After(balance,
                            << Transfer(MARKET, OfferAt(id).buyer, OfferAt(id).amount) >>)
                      /\ ~offers'[id].active
                      /\ \A other \in DOMAIN offers \ {id} : offers'[other] = offers[other]
        ]_vars

\* an offer of 1.0 was made and cancelled: it is inactive, its buyer has
\* the initial funds again and the marketplace holds nothing
C17_Witness ==
    \E id \in DOMAIN offers :
        /\ OffersMade = 1
        /\ totalSales = 0
        /\ ~offers[id].active
        /\ offers[id].amount = 1000
        /\ offers[id].expiresAt > now
        /\ balance[offers[id].buyer] = InitialFunds
        /\ balance[MARKET] = 0

\* the offers on record that are active
ActiveOffers == {id \in DOMAIN offers : offers[id].active}

\* C18: every createOffer call that goes through creates an active offer of
\* its own whose payment the marketplace holds until the offer is accepted
\* or cancelled, however many offers there are for the asset and whoever
\* made them: with no emergencyWithdraw, the marketplace's balance is the
\* sum of the amounts of the active offers.
C18_BalanceIsActiveOffers ==
    balance[MARKET] = Sum([id \in ActiveOffers |-> offers[id].amount], ActiveOffers)

(***************************************************************************)
(* Properties of royalty resolution.                                       *)
(***************************************************************************)
\* the stored records that apply to an asset, in the order token, contract,
\* default
Layers(t) == << TokenRoyalty(NFT, t), ContractRoyalty(NFT), defaultRoyalty >>

NonEmptyLayers(t) ==
    {i \in 1..3 : Layers(t)[i].recipient # ZERO \/ Layers(t)[i].percentage > 0}

\* amount = floor(salePrice * bps / 10000)
IsRoyaltyFloor(amount, salePrice, bps) ==
    /\ amount * 10000 <= salePrice * bps
    /\ salePrice * bps < (amount + 1) * 10000

\* what the claims say the cascade over the stored records returns
IsCascadeResult(got, t, salePrice) ==
    IF NonEmptyLayers(t) = {}
    THEN got = [recipient |-> ZERO, amount |-> 0]
    ELSE \E i \in NonEmptyLayers(t) :
            /\ \A j \in NonEmptyLayers(t) : i <= j
            /\ got.recipient = Layers(t)[i].recipient
            /\ IsRoyaltyFloor(got.amount, salePrice, Layers(t)[i].percentage)

\* C19: for a registry without the royalty-query capability getRoyalty
\* returns recipient and floor(salePrice * bps / 10000) of the first of the
\* token's record, the contract's record and the default record that is
\* non-empty (recipient set or bps > 0), and (empty recipient, 0) when all
\* three are empty; nothing else about the registry affects the result.
C19_CascadeOrder ==
    \A t \in TokenIds, p \in SalePrices, ext \in NoCapabilityAnswers :
        /\ IsCascadeResult(getRoyalty(NFT, t, p, ext), t, p)
        /\ \A other \in NoCapabilityAnswers :
              getRoyalty(NFT, t, p, other) = getRoyalty(NFT, t, p, ext)

\* all three layers are set for asset 1 and differ, so the token's record
\* decides (bob, 5% of 1.0); asset 2 has no record of its own, so the
\* contract's record decides (carol with 0 bps), ahead of the default
C19_Witness ==
    /\ TokenRoyalty(NFT, 1) = [recipient |-> "bob", percentage |-> 500]
    /\ TokenRoyalty(NFT, 2) = EmptyRoyalty
    /\ ContractRoyalty(NFT) = [recipient |-> "carol", percentage |-> 0]
    /\ defaultRoyalty = [recipient |-> "bob", percentage |-> 1000]
    /\ \A ext \in NoCapabilityAnswers :
          /\ getRoyalty(NFT, 1, 1000, ext) = [recipient |-> "bob", amount |-> 50]
          /\ getRoyalty(NFT, 2, 1000, ext) = [recipient |-> "carol", amount |-> 0]

\* the registry's answer is one getRoyalty accepts: the call did not fail,
\* the recipient is non-empty and the amount is at most 10% of the sale price
AnswerAccepted(ext, salePrice) ==
    /\ ~ext.reverts
    /\ ext.recipient # ZERO
    /\ 10 * RegistryRoyaltyAmount(ext, salePrice) <= salePrice

\* C20: for a registry with the royalty-query capability getRoyalty returns
\* the registry's answer, whatever records are stored, exactly when the
\* answer has a non-empty recipient and an amount of at most 10% of the sale
\* price; when the recipient is empty, the amount is larger or the call
\* fails, getRoyalty returns what the cascade over the stored records returns.
C20_RegistryAnswerFirst ==
    \A t \in TokenIds, p \in SalePrices, ext \in CapabilityAnswers :
        IF AnswerAccepted(ext, p)
        THEN getRoyalty(NFT, t, p, ext) =
                [recipient |-> ext.recipient, amount |-> RegistryRoyaltyAmount(ext, p)]
        ELSE /\ IsCascadeResult(getRoyalty(NFT, t, p, ext), t, p)
             /\ \A none \in NoCapabilityAnswers :
                   getRoyalty(NFT, t, p, ext) = getRoyalty(NFT, t, p, none)

\* asset 1 has a record of its own (bob, 5%): an answer of 10% for carol is
\* returned ahead of it, while an answer of 10.01% on a price of 1.999, an
\* answer with no recipient and a failed call all give the record's royalty
C20_Witness ==
    /\ TokenRoyalty(NFT, 1) = [recipient |-> "bob", percentage |-> 500]
    /\ ContractRoyalty(NFT) = [recipient |-> "carol", percentage |-> 1000]
    /\ getRoyalty(NFT, 1, 1999,
          [supports |-> TRUE, reverts |-> FALSE, recipient |-> "carol", fraction |-> 1000])
         = [recipient |-> "carol", amount |-> 199]
    /\ getRoyalty(NFT, 1, 1999,
          [supports |-> TRUE, reverts |-> FALSE, recipient |-> "carol", fraction |-> 1001])
         = [recipient |-> "bob", amount |-> 99]
    /\ getRoyalty(NFT, 1, 1999,
          [supports |-> TRUE, reverts |-> FALSE, recipient |-> ZERO, fraction |-> 500])
         = [recipient |-> "bob", amount |-> 99]
    /\ getRoyalty(NFT, 1, 1999,
          [supports |-> TRUE, reverts |-> TRUE, recipient |-> "carol", fraction |-> 500])
         = [recipient |-> "bob", amount |-> 99]

(***************************************************************************)
(* Properties of the royalty engine's records.                             *)
(***************************************************************************)
\* every record the royalty engine holds
StoredRecords ==
    {defaultRoyalty}
    \cup {contractRoyalties[n] : n \in DOMAIN contractRoyalties}
    \cup {tokenRoyalties[k] : k \in DOMAIN tokenRoyalties}

\* a record that breaks one of the two rules
BreaksRoyaltyRules(recipient, percentage) ==
    percentage > 1000 \/ (percentage > 0 /\ recipient = ZERO)

\* C21: whatever setDefaultRoyalty, setContractRoyalty, setTokenRoyalty,
\* batchSetContractRoyalties, removeContractRoyalty and removeTokenRoyalty
\* calls were made, every stored record has bps <= 1000 and a non-empty
\* recipient when bps > 0; a setter call with a record that breaks either
\* rule, and a batch with such a record in it, does not go through (and so
\* leaves every record as it was).
C21_StoredRecordsValid ==
    /\ \A r \in StoredRecords : ~BreaksRoyaltyRules(r.recipient, r.percentage)
    /\ \A c \in Accounts, r \in AdminRecords :
          BreaksRoyaltyRules(r.recipient, r.percentage) =>
              /\ ~ENABLED setDefaultRoyalty(c, r.recipient, r.percentage)
              /\ \A n \in {NFT, PLAIN} :
                    /\ ~ENABLED setContractRoyalty(c, n, r.recipient, r.percentage)
                    /\ \A t \in TokenIds :
                          ~ENABLED setTokenRoyalty(c, n, t, r.recipient, r.percentage)
    /\ \A c \in Accounts, b \in Batches :
          (\E i \in DOMAIN b.recipients \cap DOMAIN b.percentages :
                BreaksRoyaltyRules(b.recipients[i], b.percentages[i]))
              => ~ENABLED batchSetContractRoyalties(c, b.nftContracts, b.recipients,
                                                    b.percentages)

\* records at the limit of 10% are stored at all three levels, one of them
\* for a registry only a batch or the engine's owner can write
C21_Witness ==
    /\ defaultRoyalty = [recipient |-> "carol", percentage |-> 1000]
    /\ ContractRoyalty(NFT) = [recipient |-> "carol", percentage |-> 500]
    /\ ContractRoyalty(PLAIN) = [recipient |-> "carol", percentage |-> 1000]
    /\ TokenRoyalty(NFT, 1) = [recipient |-> "carol", percentage |-> 1000]
    /\ TokenRoyalty(NFT, 2) = EmptyRoyalty

\* who may write a registry's contract-level record and an asset's
\* token-level record: PLAIN answers no ownership query
MayWriteContract(c, n) == c = OWNER \/ (n = NFT /\ c = RegistryOwner)
MayWriteToken(c, n, t) ==
    c = OWNER \/ (n = NFT /\ c = RegistryOwner) \/ (n = NFT /\ c = ownerOf[t])

\* C22: a contract-level record changes only in a call by the engine's
\* owner or by the registry's owner as its owner() reports; a token-level
\* record only in a call by the engine's owner, the registry's owner or the
\* asset's current owner; the default record only in a call by the engine's
\* owner.  For a registry whose ownership queries fail only the engine's
\* owner is authorized: every other caller's call is rejected.
C22_RoyaltyAuthorization ==
    /\ [](\A c \in Accounts, n \in {NFT, PLAIN}, r \in AdminRecords :
            /\ c # OWNER => ~ENABLED setDefaultRoyalty(c, r.recipient, r.percentage)
            /\ ~MayWriteContract(c, n) =>
                  /\ ~ENABLED setContractRoyalty(c, n, r.recipient, r.percentage)
                  /\ ~ENABLED removeContractRoyalty(c, n)
            /\ \A t \in TokenIds :
                  ~MayWriteToken(c, n, t) =>
                      /\ ~ENABLED setTokenRoyalty(c, n, t, r.recipient, r.percentage)
                      /\ ~ENABLED removeTokenRoyalty(c, n, t))
    /\ [][/\ defaultRoyalty' # defaultRoyalty =>
                \E r \in AdminRecords : setDefaultRoyalty(OWNER, r.recipient, r.percentage)
          /\ \A n \in {NFT, PLAIN} :
                ContractRoyalty(n)' # ContractRoyalty(n) =>
                    \E c \in Accounts :
                        /\ MayWriteContract(c, n)
                        /\ \/ \E r \in AdminRecords :
                                 setContractRoyalty(c, n, r.recipient, r.percentage)
                           \/ removeContractRoyalty(c, n)
                           \/ /\ c = OWNER
                              /\ \E b \in Batches :
                                    batchSetContractRoyalties(c, b.nftContracts,
                                                              b.recipients, b.percentages)
          /\ \A n \in {NFT, PLAIN}, t \in TokenIds :
                TokenRoyalty(n, t)' # TokenRoyalty(n, t) =>
                    \E c \in Accounts :
                        /\ MayWriteToken(c, n, t)
                        /\ \/ \E r \in AdminRecords :
                                 setTokenRoyalty(c, n, t, r.recipient, r.percentage)
                           \/ removeTokenRoyalty(c, n, t)
        ]_vars

\* asset 1 has changed hands and has a record of its own: its new owner may
\* write it and its former owner may not; the registry's owner may write the
\* registry's record but not that of the registry that answers no query
C22_Witness ==
    /\ ownerOf[1] = "bob"
    /\ TokenRoyalty(NFT, 1) = [recipient |-> "carol", percentage |-> 500]
    /\ ContractRoyalty(PLAIN) = [recipient |-> "carol", percentage |-> 500]
    /\ ENABLED setTokenRoyalty("bob", NFT, 1, "carol", 1000)
    /\ ~ENABLED setTokenRoyalty("alice", NFT, 1, "carol", 1000)
    /\ ENABLED setContractRoyalty(RegistryOwner, NFT, "carol", 1000)
    /\ ~ENABLED setContractRoyalty(RegistryOwner, PLAIN, "carol", 1000)
    /\ ~ENABLED removeTokenRoyalty(RegistryOwner, PLAIN, 1)

(***************************************************************************)
(* Properties of pausing and of the emergency withdrawal.                  *)
(***************************************************************************)
\* while the escrow engine is paused none of its five trading operations
\* goes through
PausedEscrowRejectsAll ==
    escrowPaused =>
        /\ \A c \in Accounts, b \in Holders, t \in TradedTokens, v \in Prices, d \in Deadlines :
              ~ENABLED createEscrow(c, b, NFT, t, d, v)
        /\ \A c \in Accounts, id \in EscrowIds :
              /\ ~ENABLED approveEscrow(c, id)
              /\ ~ENABLED cancelEscrow(c, id)
              /\ ~ENABLED initiateDispute(c, id)
              /\ \A f \in BOOLEAN : ~ENABLED resolveDispute(c, id, f)

\* while the marketplace is paused none of its seven trading operations goes
\* through
PausedMarketRejectsAll ==
    marketPaused =>
        /\ \A c \in Accounts, t \in TradedTokens, p \in Prices, d \in Durations :
              /\ ~ENABLED listItem(c, NFT, t, p, d)
              /\ \A v \in Prices : ~ENABLED createOffer(c, NFT, t, d, v)
        /\ \A c \in Accounts, id \in DOMAIN listings :
              /\ \A v \in Payments, ext \in RegistryAnswers : ~ENABLED buyItem(c, id, v, ext)
              /\ ~ENABLED cancelListing(c, id)
              /\ \A p \in Prices : ~ENABLED updateListing(c, id, p)
        /\ \A c \in Accounts, id \in DOMAIN offers :
              /\ \A ext \in RegistryAnswers : ~ENABLED acceptOffer(c, id, ext)
              /\ ~ENABLED cancelOffer(c, id)

\* C23: while an engine is paused every state-mutating operation on it is
\* rejected: listItem, buyItem, cancelListing, updateListing, createOffer,
\* acceptOffer and cancelOffer on the marketplace; createEscrow,
\* approveEscrow, cancelEscrow, initiateDispute and resolveDispute on the
\* escrow engine.
C23_PausedRejectsAll == PausedEscrowRejectsAll /\ PausedMarketRejectsAll

\* What pausing does block: the operations declared whenNotPaused, which are
\* createEscrow on the escrow engine and listItem, buyItem, createOffer and
\* acceptOffer on the marketplace; the owner can unpause.
PausedRejectsGuarded ==
    /\ escrowPaused =>
          /\ \A c \in Accounts, b \in Holders, t \in TradedTokens, v \in Prices,
                d \in Deadlines : ~ENABLED createEscrow(c, b, NFT, t, d, v)
          /\ ENABLED escrowUnpause(OWNER)
    /\ marketPaused =>
          /\ \A c \in Accounts, t \in TradedTokens, p \in Prices, d \in Durations :
                /\ ~ENABLED listItem(c, NFT, t, p, d)
                /\ \A v \in Prices : ~ENABLED createOffer(c, NFT, t, d, v)
          /\ \A c \in Accounts, id \in DOMAIN listings, v \in Payments,
                ext \in RegistryAnswers : ~ENABLED buyItem(c, id, v, ext)
          /\ \A c \in Accounts, id \in DOMAIN offers, ext \in RegistryAnswers :
                ~ENABLED acceptOffer(c, id, ext)
          /\ ENABLED marketUnpause(OWNER)

\* the records of the two engines and the ownership of the assets
TradeRecords ==
    <<escrowTransactions, userEscrows, nextEscrowId, listings, offers, tokenToListingId,
      userListings, userOffers, totalListings, totalSales, totalVolume, ownerOf>>

\* C24: on either engine emergencyWithdraw goes through only when the caller
\* is the engine's owner and the engine is paused; it moves the engine's
\* entire balance to the owner and changes no listing, offer or escrow
\* record.  Called by anyone else, or on an engine that is not paused, it is
\* rejected (and the balance stays as it is).
C24_EmergencyWithdraw ==
    /\ [](\A c \in Accounts :
            /\ ENABLED escrowEmergencyWithdraw(c) <=> (c = OWNER /\ escrowPaused)
            /\ ENABLED marketEmergencyWithdraw(c) <=> (c = OWNER /\ marketPaused))
    /\ [][balance' # balance =>
            \A c \in Accounts :
                /\ escrowEmergencyWithdraw(c) =>
                      /\ c = OWNER /\ escrowPaused
                      /\ balance' = After(balance, << Transfer(ESCROW, OWNER, balance[ESCROW]) >>)
                      /\ balance'[ESCROW] = 0
                      /\ UNCHANGED TradeRecords
                /\ marketEmergencyWithdraw(c) =>
                      /\ c = OWNER /\ marketPaused
                      /\ balance' = After(balance, << Transfer(MARKET, OWNER, balance[MARKET]) >>)
                      /\ balance'[MARKET] = 0
                      /\ UNCHANGED TradeRecords
        ]_vars

\* the owner has withdrawn the 1.0 held for an offer from the paused
\* marketplace: the offer is still on record as active
C24_Witness ==
    /\ marketPaused
    /\ balance[OWNER] = 1000
    /\ balance[MARKET] = 0
    /\ \E id \in DOMAIN offers : offers[id].active /\ offers[id].amount = 1000
    /\ totalSales = 0

\* the asset transfer of a purchase of the listing by `caller` is refused
TransferRefused(caller, listingId) ==
    ~CanTransferToken(MARKET, listings[listingId].seller, caller,
                      listings[listingId].tokenId)

\* one of the payments of a purchase of the listing by `caller`, sent with
\* `value`, is refused: the seller's, the fee recipient's, the royalty
\* recipient's, or the refund of what was sent above the price
PaymentRefused(caller, listingId, value, ext) ==
    \/ ~CanPaySale(listings[listingId].seller, listings[listingId].price,
                   SaleRoyalty(listings[listingId].nftContract, listings[listingId].tokenId,
                               listings[listingId].price, ext))
    \/ value > listings[listingId].price /\ ~CanReceive(caller)

\* C25: buyItem is all-or-nothing.  Whenever the asset transfer is refused
\* (the seller revoked the marketplace's authorization after listing) or one
\* of the payments, to the seller, the fee recipient, the royalty recipient
\* or the refund to the buyer, is refused, no buyItem call on the listing
\* goes through, so the listing stays active, the asset stays with the
\* seller, and the totals and every balance stay as they are; and a step
\* that changes the totals or a balance is a whole purchase: the listing is
\* cleared, the asset moves from the seller to the buyer, totalSales grows
\* by one and totalVolume by the price, and the seller is paid, all in the
\* same step.
C25_AllOrNothing ==
    /\ [](\A c \in PurchaseCallers, id \in DOMAIN listings, v \in PurchasePayments,
             ext \in PurchaseAnswers :
            (listings[id].active /\ (TransferRefused(c, id) \/ PaymentRefused(c, id, v, ext)))
                => ~ENABLED buyItem(c, id, v, ext))
    /\ [][(\/ totalSales' # totalSales
           \/ totalVolume' # totalVolume
           \/ balance' # balance) =>
            \E id \in DOMAIN listings :
                /\ listings[id].active
                /\ ~listings'[id].active
                /\ ownerOf[listings[id].tokenId] = listings[id].seller
                /\ ownerOf'[listings[id].tokenId] # listings[id].seller
                /\ ~TransferRefused(ownerOf'[listings[id].tokenId], id)
                /\ \E v \in PurchasePayments, ext \in PurchaseAnswers :
                      ~PaymentRefused(ownerOf'[listings[id].tokenId], id, v, ext)
                /\ totalSales' = totalSales + 1
                /\ totalVolume' = totalVolume + listings[id].price
                /\ balance'[listings[id].seller] > balance[listings[id].seller]
       ]_vars

\* the answer of a registry that names the vault as the royalty recipient
VaultRoyaltyAnswer ==
    [supports |-> TRUE, reverts |-> FALSE, recipient |-> VAULT, fraction |-> 1000]

\* four active listings and no sale so far, with the escrow engine, which
\* refuses ether, as fee recipient; on each listing one thing only stands in
\* the way of a purchase.  Asset 1, at 0.039: alice has revoked the
\* marketplace's approval, so the transfer is refused.  Asset 2, at 0.039:
\* the seller is the vault, which refuses its payment.  Asset 4, at 1.0: the
\* fee of 0.025 is refused by its recipient.  Asset 3, at 0.039, is bought
\* by bob or by the vault when each sends the price, but not when the
\* registry names the vault as royalty recipient, and not by the vault when
\* it sends 1.0 and the refund is due to it.  Nothing has moved.
C25_Witness ==
    \E id1, id2, id3, id4 \in DOMAIN listings :
        /\ \A id \in {id1, id2, id3, id4} : listings[id].active /\ listings[id].expiresAt > now
        /\ listings[id1].tokenId = 1 /\ listings[id2].tokenId = 2
        /\ listings[id3].tokenId = 3 /\ listings[id4].tokenId = 4
        /\ marketFeeRecipient = ESCROW
        /\ tokenApproval[1] = ZERO
        /\ TransferRefused("bob", id1)
        /\ ~PaymentRefused("bob", id1, 39, NoRoyaltyAnswer)
        /\ ~ENABLED buyItem("bob", id1, 39, NoRoyaltyAnswer)
        /\ listings[id2].seller = VAULT
        /\ ~TransferRefused("bob", id2)
        /\ PaymentRefused("bob", id2, 39, NoRoyaltyAnswer)
        /\ ~ENABLED buyItem("bob", id2, 39, NoRoyaltyAnswer)
        /\ listings[id4].seller = "alice"
        /\ ~TransferRefused("bob", id4)
        /\ PaymentRefused("bob", id4, 1000, NoRoyaltyAnswer)
        /\ ~ENABLED buyItem("bob", id4, 1000, NoRoyaltyAnswer)
        /\ ~TransferRefused("bob", id3) /\ ~TransferRefused(VAULT, id3)
        /\ ENABLED buyItem("bob", id3, 39, NoRoyaltyAnswer)
        /\ PaymentRefused("bob", id3, 39, VaultRoyaltyAnswer)
        /\ ~ENABLED buyItem("bob", id3, 39, VaultRoyaltyAnswer)
        /\ ENABLED buyItem(VAULT, id3, 39, NoRoyaltyAnswer)
        /\ PaymentRefused(VAULT, id3, 1000, NoRoyaltyAnswer)
        /\ ~ENABLED buyItem(VAULT, id3, 1000, NoRoyaltyAnswer)
        /\ totalSales = 0
        /\ totalVolume = 0
        /\ \A a \in {"alice", "bob", VAULT} : balance[a] = InitialFunds

\* C26: the marketplace fee percentage and the escrow fee percentage start
\* at 250 and are at most 1000 basis points in every reachable state; a
\* setMarketplaceFee or setEscrowFee call goes through exactly when the
\* caller is the owner and the value is at most 1000, so a call from anyone
\* else or with a larger value leaves the fee as it is; and a step that
\* changes a fee is the owner's call of that engine's setter, which stores
\* the value given.
C26_FeesCapped ==
    /\ escrowFeePercentage = 250 /\ marketplaceFeePercentage = 250
    /\ [](/\ escrowFeePercentage <= 1000
          /\ marketplaceFeePercentage <= 1000
          /\ \A c \in Accounts, f \in FeeChoices :
                /\ ENABLED setEscrowFee(c, f) <=> (c = OWNER /\ f <= 1000)
                /\ ENABLED setMarketplaceFee(c, f) <=> (c = OWNER /\ f <= 1000))
    /\ [][/\ escrowFeePercentage' # escrowFeePercentage =>
                \E f \in FeeChoices : /\ f <= 1000
                                       /\ setEscrowFee(OWNER, f)
                                       /\ escrowFeePercentage' = f
          /\ marketplaceFeePercentage' # marketplaceFeePercentage =>
                \E f \in FeeChoices : /\ f <= 1000
                                       /\ setMarketplaceFee(OWNER, f)
                                       /\ marketplaceFeePercentage' = f
       ]_vars

\* the owner has raised the escrow fee to the cap, where the next value up
\* is refused and a holder's call is refused
C26_Witness ==
    /\ escrowFeePercentage = 1000
    /\ marketplaceFeePercentage = 250
    /\ ~ENABLED setEscrowFee(OWNER, 1001)
    /\ ~ENABLED setEscrowFee("alice", 250)
    /\ ENABLED setEscrowFee(OWNER, 250)

\* C27: while the registry is not whitelisted on the marketplace no listItem
\* and no createOffer call for it goes through, and while it is not
\* whitelisted on the escrow engine no createEscrow call for it goes
\* through, so such a call changes nothing; a setContractWhitelist call goes
\* through exactly when the caller is the engine's owner; and a step that
\* changes an engine's whitelist is the owner's setContractWhitelist call on
\* that engine.
C27_WhitelistGate ==
    /\ [](\A n \in Registries :
            /\ ~Get(marketWhitelisted, n, FALSE) =>
                  /\ \A c \in Accounts, t \in TradedTokens, p \in Prices \cup {0},
                        d \in Durations : ~ENABLED listItem(c, n, t, p, d)
                  /\ \A c \in Holders, t \in TradedTokens, d \in Durations,
                        v \in Prices \cup {0} : ~ENABLED createOffer(c, n, t, d, v)
            /\ ~Get(escrowWhitelisted, n, FALSE) =>
                  \A c \in Accounts, b \in EscrowBuyers, t \in TradedTokens,
                     v \in Prices \cup {0}, d \in Deadlines :
                      ~ENABLED createEscrow(c, b, n, t, d, v)
            /\ \A c \in Accounts, w \in BOOLEAN :
                  /\ ENABLED marketSetContractWhitelist(c, n, w) <=> c = OWNER
                  /\ ENABLED escrowSetContractWhitelist(c, n, w) <=> c = OWNER)
    /\ [][/\ marketWhitelisted' # marketWhitelisted =>
                \E n \in Registries, w \in BOOLEAN :
                    /\ marketSetContractWhitelist(OWNER, n, w)
                    /\ marketWhitelisted'[n] = w
          /\ escrowWhitelisted' # escrowWhitelisted =>
                \E n \in Registries, w \in BOOLEAN :
                    /\ escrowSetContractWhitelist(OWNER, n, w)
                    /\ escrowWhitelisted'[n] = w
       ]_vars

\* the registry was whitelisted on the marketplace, an asset was listed, and
\* the owner took the registry off the whitelist again: the asset's owner,
\* who has authorized the marketplace, can no longer list it and nobody can
\* make an offer for it
C27_Witness ==
    /\ totalListings = 1
    /\ ~marketWhitelisted[NFT]
    /\ ~marketPaused
    /\ \E c \in Holders, t \in TradedTokens :
          /\ ownerOf[t] = c
          /\ EngineApproved(MARKET, c, t)
          /\ ~ListingAt(ListingIdOf(NFT, t, now)).active
          /\ ~ENABLED listItem(c, NFT, t, 1000, 1)
    /\ \A c \in Holders : balance[c] >= 1000 /\ ~ENABLED createOffer(c, NFT, 1, 1, 1000)

\* everything of the marketplace and its surroundings except the listing
\* records and the index from assets to their current listing
AroundListings ==
    <<now, balance, registryVars, escrowState, offers, userListings, userOffers,
      marketTotals, marketConfig, royaltyVars>>

\* C28: an updateListing call goes through only for the listing's seller on
\* an active listing with newPrice > 0, and changes only the price of that
\* record (seller, asset, created-at, expires-at and active flag stay, as
\* does every other record); a cancelListing call goes through exactly for
\* the listing's seller or the engine owner on an active listing, and
\* changes only the active flag of that record (and the asset's entry in the
\* index of current listings); for any other caller or on an inactive
\* listing neither call goes through, so nothing changes.
C28_UpdateAndCancel ==
    /\ [](\A c \in Accounts, id \in AllListingIds :
            /\ ENABLED cancelListing(c, id) <=>
                    /\ ListingAt(id).active
                    /\ (c = ListingAt(id).seller \/ c = OWNER)
            /\ \A p \in Prices \cup {0} :
                    ENABLED updateListing(c, id, p) =>
                        /\ ListingAt(id).active
                        /\ c = ListingAt(id).seller
                        /\ p > 0)
    /\ [][listings' # listings =>
            \A c \in Accounts, id \in DOMAIN listings :
                /\ \A p \in Prices :
                        updateListing(c, id, p) =>
                            /\ listings' = [listings EXCEPT ![id].price = p]
                            /\ listings'[id].active
                            /\ UNCHANGED tokenToListingId
                            /\ UNCHANGED AroundListings
                /\ cancelListing(c, id) =>
                        /\ listings' = [listings EXCEPT ![id].active = FALSE]
                        /\ UNCHANGED AroundListings
       ]_vars

\* the only listing made so far was cancelled: its record still names its
\* seller and asset, and neither its seller nor the owner can cancel or
\* reprice it again
C28_Witness ==
    /\ totalListings = 1
    /\ totalSales = 0
    /\ \E id \in DOMAIN listings :
          /\ ~listings[id].active
          /\ listings[id].seller \in Holders
          /\ listings[id].tokenId = 1
          /\ listings[id].price = 1000
          /\ listings[id].expiresAt > now
          /\ ~ENABLED cancelListing(listings[id].seller, id)
          /\ ~ENABLED cancelListing(OWNER, id)
          /\ ~ENABLED updateListing(listings[id].seller, id, 39)

\* the listing ids pushed to the accounts' lists, one by each listItem call
ListingsPushed == Sum([a \in DOMAIN userListings |-> Len(userListings[a])], DOMAIN userListings)

\* C29: totalListings counts the listItem calls that went through (each
\* pushes one id to its caller's list and adds one), totalSales counts the
\* buyItem and acceptOffer calls that went through (each adds one), and
\* totalVolume is the sum of the listing prices and offer amounts of those
\* sales (buyItem adds the listing's price, acceptOffer the offer's amount);
\* a step that is not one of these three calls, such as cancelListing,
\* updateListing, createOffer or cancelOffer, leaves all three as they are.
C29_Totals ==
    /\ [](/\ totalListings = ListingsPushed
          /\ totalSales = 0 <=> totalVolume = 0
          /\ totalVolume >= totalSales * 39
          /\ totalVolume <= totalSales * 1000)
    /\ [][(marketVars' # marketVars \/ marketTotals' # marketTotals) =>
            /\ IF userListings' # userListings
               THEN /\ totalListings' = totalListings + 1
                    /\ \E c \in Holders, t \in TradedTokens, p \in Prices, d \in Durations :
                          listItem(c, NFT, t, p, d)
               ELSE totalListings' = totalListings
            /\ \A c \in Accounts, id \in DOMAIN listings, v \in Payments,
                  ext \in RegistryAnswers :
                    buyItem(c, id, v, ext) =>
                        /\ totalSales' = totalSales + 1
                        /\ totalVolume' = totalVolume + listings[id].price
                        /\ totalListings' = totalListings
            /\ \A c \in Accounts, id \in DOMAIN offers, ext \in RegistryAnswers :
                    acceptOffer(c, id, ext) =>
                        /\ totalSales' = totalSales + 1
                        /\ totalVolume' = totalVolume + offers[id].amount
                        /\ totalListings' = totalListings
            /\ (totalSales' # totalSales \/ totalVolume' # totalVolume) =>
                    \/ \E c \in Accounts, id \in DOMAIN listings, v \in Payments,
                          ext \in RegistryAnswers : buyItem(c, id, v, ext)
                    \/ \E c \in Accounts, id \in DOMAIN offers, ext \in RegistryAnswers :
                          acceptOffer(c, id, ext)
            /\ \A c \in Accounts :
                  /\ \A id \in DOMAIN listings :
                        /\ cancelListing(c, id) => UNCHANGED marketTotals
                        /\ \A p \in Prices : updateListing(c, id, p) => UNCHANGED marketTotals
                  /\ \A id \in DOMAIN offers : cancelOffer(c, id) => UNCHANGED marketTotals
                  /\ \A t \in TradedTokens, d \in Durations, v \in Prices :
                        createOffer(c, NFT, t, d, v) => UNCHANGED marketTotals
       ]_vars

\* two listings were made, the first sold through buyItem at 1000 and an
\* offer of 39 was accepted: two sales with a volume of 1039
C29_Witness ==
    /\ totalListings = 2
    /\ totalSales = 2
    /\ totalVolume = 1039
    /\ \E id \in DOMAIN offers : ~offers[id].active /\ offers[id].amount = 39

\* the fields of a listing record that no operation is meant to rewrite
ListingIdentity(l) == <<l.seller, l.nftContract, l.tokenId, l.createdAt, l.expiresAt>>

\* C30: listing history is append-only.  In every step each listing record
\* that exists stays in place with its seller, asset, created-at and
\* expires-at, its active flag is at most cleared, and its price changes
\* only through updateListing; and a listItem call that goes through
\* writes its record under an id that held no record before.
C30_AppendOnly ==
    [][listings' # listings =>
        /\ \A id \in DOMAIN listings :
              /\ id \in DOMAIN listings'
              /\ ListingIdentity(listings'[id]) = ListingIdentity(listings[id])
              /\ listings'[id].active => listings[id].active
              /\ listings'[id].price # listings[id].price =>
                    \E c \in Accounts, p \in Prices : updateListing(c, id, p)
        /\ userListings' # userListings => ListingIdOf(NFT, 1, now) \notin DOMAIN listings
    ]_vars

\* a listing made at the present timestamp has been sold, and its buyer,
\* having authorized the marketplace, can list the asset again at the same
\* timestamp, which is the id of the sold listing's record
C30_Witness ==
    \E id \in DOMAIN listings :
        /\ id = ListingIdOf(NFT, 1, now)
        /\ ~listings[id].active
        /\ totalSales = 1
        /\ ownerOf[1] # listings[id].seller
        /\ ENABLED listItem(ownerOf[1], NFT, 1, 39, 1)

\* the operations of each engine that change its state, as a whole call and
\* up to the asset transfer
MarketMutatorEnabled(c) ==
    \/ \E t \in TokenIds, p \in Prices, d \in Durations : ENABLED listItem(c, NFT, t, p, d)
    \/ \E t \in TokenIds, d \in Durations, v \in Prices : ENABLED createOffer(c, NFT, t, d, v)
    \/ \E id \in DOMAIN listings :
          \/ ENABLED cancelListing(c, id)
          \/ \E p \in Prices : ENABLED updateListing(c, id, p)
          \/ \E v \in Payments : ENABLED buyItemCallOut(c, id, v, NoRoyaltyAnswer)
    \/ \E id \in DOMAIN offers :
          \/ ENABLED cancelOffer(c, id)
          \/ ENABLED acceptOfferCallOut(c, id, NoRoyaltyAnswer)

EscrowMutatorEnabled(c) ==
    \/ \E b \in Holders, t \in TokenIds, d \in Deadlines, v \in Prices :
          ENABLED createEscrow(c, b, NFT, t, d, v)
    \/ \E id \in AllEscrowIds :
          \/ ENABLED approveEscrowFirst(c, id)
          \/ ENABLED approveEscrowCallOut(c, id)
          \/ ENABLED cancelEscrowCallOut(c, id)
          \/ ENABLED initiateDispute(c, id)
          \/ \E f \in BOOLEAN : ENABLED resolveDisputeCallOut(c, id, f)

\* an operation of the engine is among the calls waiting for a callback
MarketWaiting == \E i \in 1..Len(callOut) : callOut[i].op \in {"buyItem", "acceptOffer"}
EscrowWaiting ==
    \E i \in 1..Len(callOut) :
        callOut[i].op \in {"cancelEscrow", "approveEscrow", "resolveDisputeForBuyer",
                           "resolveDisputeForSeller"}

\* C31: every marketplace and escrow operation that calls out is behind the
\* reentrancy guard and has made all of its own state changes before the
\* call-out.  While a marketplace operation is waiting for a callback, the
\* recipient whose callback is running can run no mutating operation of the
\* marketplace, and likewise for the escrow engine; and what an operation
\* does after the callback has returned changes no listing, offer, escrow
\* or running total.
C31_ReentrancyProtection ==
    /\ [](/\ MarketWaiting => ~MarketMutatorEnabled(Frame.recipient)
          /\ EscrowWaiting => ~EscrowMutatorEnabled(Frame.recipient))
    /\ [][(buyItemReturn \/ acceptOfferReturn \/ refundEscrowReturn \/ completeEscrowReturn)
            => UNCHANGED <<marketVars, marketTotals, escrowVars>>]_vars

\* bob's purchase is waiting for bob's onERC721Received to return: the
\* listing is already cleared and the asset is bob's, the sale is not yet
\* counted and the price not yet paid out, and bob can have his own offer
\* cancelled and refunded from there
C31_Witness ==
    /\ Len(callOut) = 1
    /\ Frame.op = "buyItem"
    /\ Frame.recipient = "bob"
    /\ ~ListingAt(Frame.id).active
    /\ ownerOf[1] = "bob"
    /\ totalSales = 0
    /\ balance[MARKET] = 2000
    /\ \E id \in DOMAIN offers :
          /\ offers[id].buyer = "bob"
          /\ offers[id].active
          /\ ENABLED cancelOffer("bob", id)
    /\ ENABLED buyItemReturn

\* C32: escrow solvency.  In every state reached through createEscrow,
\* approveEscrow, cancelEscrow, initiateDispute, resolveDispute and the
\* owner's changes of fee, fee recipient, resolver and whitelist (no
\* emergencyWithdraw), the escrow engine's balance is the sum of the prices
\* of the escrows whose status is Active or Disputed.
C32_EscrowSolvency == balance[ESCROW] = HeldForEscrows

\* both escrows are open, the first Disputed at 1.0 and the second Active
\* at 0.039, after the owner raised the fee to 10% and named another fee
\* recipient and another resolver: the engine holds the sum of the two
\* prices
C32_Witness ==
    /\ nextEscrowId = 3
    /\ EscrowAt(1).status = "Disputed"
    /\ EscrowAt(1).price = 1000
    /\ EscrowAt(2).status = "Active"
    /\ EscrowAt(2).price = 39
    /\ escrowFeePercentage = MAX_FEE_PERCENTAGE
    /\ escrowFeeRecipient = "alice"
    /\ disputeResolver = "carol"
    /\ HeldForEscrows = 1039
    /\ balance[ESCROW] = 1039

\* C33: escrow custody.  The asset of every escrow that is Active or
\* Disputed is owned by the escrow engine, and no two such escrows refer to
\* the same asset of the same registry; the step that makes an escrow
\* Completed takes its asset from the engine to the buyer, the step that
\* makes it Cancelled takes it to the seller, an escrow that is Completed or
\* Cancelled keeps that status (so the release happens once), and the
\* engine gives up an asset only in such a step.
C33_EscrowCustody ==
    /\ [](/\ \A id \in EscrowIds :
                EscrowOpen(id) => ownerOf[EscrowAt(id).tokenId] = ESCROW
          /\ \A i, j \in EscrowIds :
                (i # j /\ EscrowOpen(i) /\ EscrowOpen(j)) =>
                    <<EscrowAt(i).nftContract, EscrowAt(i).tokenId>> #
                    <<EscrowAt(j).nftContract, EscrowAt(j).tokenId>>)
    /\ [][(escrowTransactions' # escrowTransactions \/ ownerOf' # ownerOf) =>
            /\ \A id \in EscrowIds :
                  LET e == EscrowAt(id)
                      status == EscrowAt(id)'.status
                  IN  /\ EscrowOver(id) => status = e.status
                      /\ (EscrowOpen(id) /\ status = "Completed") =>
                            /\ ownerOf[e.tokenId] = ESCROW
                            /\ ownerOf'[e.tokenId] = e.buyer
                      /\ (EscrowOpen(id) /\ status = "Cancelled") =>
                            /\ ownerOf[e.tokenId] = ESCROW
                            /\ ownerOf'[e.tokenId] = e.seller
            /\ \A t \in TokenIds :
                  (ownerOf[t] = ESCROW /\ ownerOf'[t] # ESCROW) =>
                      \E id \in EscrowIds :
                          /\ EscrowAt(id).tokenId = t
                          /\ EscrowOpen(id)
                          /\ EscrowAt(id)'.status \in {"Completed", "Cancelled"}
       ]_vars

\* a first escrow of the asset was cancelled, which gave it back to the
\* seller, who put it in a second escrow that is open and holds it
C33_Witness ==
    /\ nextEscrowId = 3
    /\ EscrowAt(1).status = "Cancelled"
    /\ EscrowOpen(2)
    /\ EscrowAt(2).tokenId = EscrowAt(1).tokenId
    /\ ownerOf[EscrowAt(2).tokenId] = ESCROW

\* every escrow created so far has been cancelled (by cancelEscrow or by
\* resolveDispute in the seller's favour)
AllEscrowsCancelled ==
    /\ EscrowIds # {}
    /\ \A id \in EscrowIds : EscrowAt(id).status = "Cancelled"

\* C34: cancelling an escrow is monetarily neutral for both participants.
\* When every escrow created so far has been cancelled, each holder has the
\* funds it had before the first createEscrow and each escrowed asset is
\* back with the seller who put it in.
C34_CancelIsNeutral ==
    AllEscrowsCancelled =>
        /\ \A a \in Holders : balance[a] = InitialFunds
        /\ \A id \in EscrowIds : ownerOf[EscrowAt(id).tokenId] = EscrowAt(id).seller

\* alice put her asset in escrow for bob with 1.0 ether and the escrow was
\* cancelled: the asset is alice's again, and the 1.0 ether that alice sent
\* is with bob
C34_Witness ==
    /\ nextEscrowId = 2
    /\ EscrowAt(1).status = "Cancelled"
    /\ EscrowAt(1).seller = "alice"
    /\ EscrowAt(1).buyer = "bob"
    /\ EscrowAt(1).price = 1000
    /\ ownerOf[EscrowAt(1).tokenId] = "alice"
    /\ balance["alice"] = InitialFunds - 1000
    /\ balance["bob"] = InitialFunds + 1000
    /\ balance[ESCROW] = 0

\* C35: offer funds are always recoverable.  For every offer whose active
\* flag is set, in every state from its creation on (also once its
\* expires-at has passed), a cancelOffer call by the offer's buyer goes
\* through and returns the held amount.
C35_OfferRecoverable ==
    \A id \in DOMAIN offers :
        offers[id].active => ENABLED cancelOffer(offers[id].buyer, id)

\* an offer whose expires-at has passed with its active flag still set: the
\* marketplace holds its amount, and no account can cancel or accept it
C35_Witness ==
    \E id \in DOMAIN offers :
        /\ offers[id].active
        /\ offers[id].amount = 1000
        /\ now >= offers[id].expiresAt
        /\ balance[MARKET] >= 1000
        /\ \A c \in Accounts :
              /\ ~ENABLED cancelOffer(c, id)
              /\ \A ext \in RegistryAnswers : ~ENABLED acceptOffer(c, id, ext)

\* C36: an open escrow can always be wound down.  In every reachable
\* state, also after pause and emergencyWithdraw, a cancelEscrow call by
\* the seller of an Active escrow goes through, and a resolveDispute call
\* by the resolver on a Disputed escrow goes through, whichever way it
\* decides.
C36_WindDown ==
    \A id \in EscrowIds :
        /\ EscrowAt(id).status = "Active" => ENABLED cancelEscrow(EscrowAt(id).seller, id)
        /\ EscrowAt(id).status = "Disputed" =>
              \A favorBuyer \in BOOLEAN : ENABLED resolveDispute(disputeResolver, id, favorBuyer)

\* the owner paused the engine and withdrew its balance while an escrow was
\* in dispute: the engine holds the asset and no ether, and the resolver
\* can decide the dispute neither way
C36_Witness ==
    \E id \in EscrowIds :
        /\ EscrowAt(id).status = "Disputed"
        /\ EscrowAt(id).price = 1000
        /\ ownerOf[EscrowAt(id).tokenId] = ESCROW
        /\ balance[ESCROW] = 0
        /\ balance[OWNER] = 1000
        /\ \A favorBuyer \in BOOLEAN : ~ENABLED resolveDispute(disputeResolver, id, favorBuyer)

\* the asset is held by an escrow that is Active or Disputed
InOpenEscrow(nftContract, tokenId) ==
    \E id \in EscrowIds :
        /\ EscrowOpen(id)
        /\ EscrowAt(id).nftContract = nftContract
        /\ EscrowAt(id).tokenId = tokenId

\* C37: across the two engines.  While an asset is held by an Active or
\* Disputed escrow no buyItem call on a listing of it and no acceptOffer
\* call on an offer for it goes through, whether or not the listing is
\* still active and unexpired; a buyItem call goes through only in a state
\* where the listing's seller is the asset's current owner; and a step that
\* counts a sale moves no asset out of an open escrow.
C37_EscrowBlocksSales ==
    /\ [](/\ \A c \in Accounts, id \in DOMAIN listings, v \in Payments :
                ENABLED buyItem(c, id, v, NoRoyaltyAnswer) =>
                    /\ ownerOf[listings[id].tokenId] = listings[id].seller
                    /\ ~InOpenEscrow(listings[id].nftContract, listings[id].tokenId)
          /\ \A c \in Accounts, id \in DOMAIN offers :
                ENABLED acceptOffer(c, id, NoRoyaltyAnswer) =>
                    ~InOpenEscrow(offers[id].nftContract, offers[id].tokenId))
    /\ [][totalSales' # totalSales =>
            \A t \in TokenIds : InOpenEscrow(NFT, t) => ownerOf'[t] = ESCROW /\ ownerOf[t] = ESCROW
       ]_vars

\* alice listed the asset and then put it in escrow for bob: the listing is
\* still active and unexpired, the escrow is Active and holds the asset,
\* and bob, who has the price, cannot buy the listing
C37_Witness ==
    \E id \in DOMAIN listings :
        /\ listings[id].active
        /\ listings[id].expiresAt > now
        /\ listings[id].seller = "alice"
        /\ InOpenEscrow(NFT, listings[id].tokenId)
        /\ ownerOf[listings[id].tokenId] = ESCROW
        /\ balance["bob"] >= listings[id].price
        /\ \A v \in Payments : ~ENABLED buyItem("bob", id, v, NoRoyaltyAnswer)

\* C38: in every sale through buyItem or acceptOffer, under every reachable
\* fee and royalty configuration and every answer of the registry, the fee
\* is at most a tenth of the price and the royalty is at most a tenth of
\* the price, so fee + royalty <= price, sellerAmount = price - fee -
\* royalty is not negative and is at least 80% of the price; and in every
\* step that counts a sale the account that gave up the asset gains at
\* least 80% of the price added to totalVolume.
C38_SellerShare ==
    /\ [](\A price \in SalePrices, t \in TokenIds, ext \in RegistryAnswers :
            LET fee == MarketFee(price)
                royalty == SaleRoyalty(NFT, t, price, ext).amount
            IN  /\ 10 * fee <= price
                /\ 10 * royalty <= price
                /\ fee + royalty <= price
                /\ SellerAmount(price, royalty) >= 0
                /\ 5 * SellerAmount(price, royalty) >= 4 * price)
    /\ [][totalSales' # totalSales =>
            \A t \in TokenIds :
                ownerOf'[t] # ownerOf[t] =>
                    5 * (balance'[ownerOf[t]] - balance[ownerOf[t]]) >=
                        4 * (totalVolume' - totalVolume)
       ]_vars

\* two sales at 1.0 were made with the fee at its cap of 10%.  In one the
\* royalty of 10% came from the stored default record, the only layer
\* written, and went to its recipient; in the other it came from the
\* registry's own answer and went to carol.  The fee recipient holds 0.2,
\* each royalty recipient 0.1, and the two sellers together the other 1.6
C38_Witness ==
    /\ totalSales = 2
    /\ totalVolume = 2000
    /\ marketplaceFeePercentage = MAX_FEE_PERCENTAGE
    /\ marketFeeRecipient = "treasury"
    /\ balance["treasury"] = 200
    /\ defaultRoyalty = [recipient |-> "resolver", percentage |-> 1000]
    /\ ~RoyaltySet(ContractRoyalty(NFT))
    /\ \A t \in TokenIds : ~RoyaltySet(TokenRoyalty(NFT, t))
    /\ balance["resolver"] = 100
    /\ balance["carol"] = InitialFunds + 100
    /\ balance[MARKET] = 0
    /\ balance["alice"] + balance["bob"] = 2 * InitialFunds - 400

\* C39: no asset of a registry that is not whitelisted at the time is
\* transferred by the engines.  A step in which the marketplace counts a
\* sale (buyItem, acceptOffer) is taken only while the registry is on the
\* marketplace's whitelist, and a step in which the escrow engine completes
\* an escrow (an approveEscrow call that hands the asset to the buyer) only
\* while it is on the escrow engine's whitelist.
C39_WhitelistedTransfersOnly ==
    [][/\ totalSales' # totalSales => marketWhitelisted[NFT]
       /\ escrowTransactions' # escrowTransactions =>
             \A id \in EscrowIds :
                 (EscrowAt(id).status # "Completed" /\ EscrowAt(id)'.status = "Completed") =>
                     escrowWhitelisted[NFT]
    ]_vars

\* the owner has taken the registry off the marketplace's whitelist while a
\* listing of one of its assets is active and unexpired: carol can still
\* buy it
C39_Witness ==
    /\ ~marketWhitelisted[NFT]
    /\ \E id \in DOMAIN listings :
          /\ listings[id].active
          /\ listings[id].expiresAt > now
          /\ listings[id].nftContract = NFT
          /\ ENABLED buyItem("carol", id, listings[id].price, NoRoyaltyAnswer)

\* the record the two views report for an asset
ViewedRoyalty(t) ==
    [recipient |-> getRoyaltyRecipient(NFT, t), percentage |-> getRoyaltyPercentage(NFT, t)]

\* C40: in every state reached through the royalty setters and removers the
\* views agree with getRoyalty's cascade over the stored records.  For
\* every asset and sale price, what getRoyalty returns for a registry
\* without the royalty-query capability is the recipient reported by
\* getRoyaltyRecipient with the amount floor(price * bps / 10000) for the
\* bps reported by getRoyaltyPercentage; hasTokenRoyalty is true exactly
\* when the token layer is the one getRoyalty uses, and when it is false
\* hasContractRoyalty is true exactly when the contract layer is.
C40_ViewsAgree ==
    \A t \in TokenIds :
        /\ \A price \in SalePrices, ext \in NoCapabilityAnswers :
              getRoyalty(NFT, t, price, ext) = RoyaltyOf(ViewedRoyalty(t), price)
        /\ hasTokenRoyalty(NFT, t) <=> 1 \in NonEmptyLayers(t)
        /\ hasContractRoyalty(NFT) <=> 2 \in NonEmptyLayers(t)
        /\ hasTokenRoyalty(NFT, t) => ViewedRoyalty(t) = TokenRoyalty(NFT, t)
        /\ (~hasTokenRoyalty(NFT, t) /\ hasContractRoyalty(NFT)) =>
              ViewedRoyalty(t) = ContractRoyalty(NFT)
        /\ (~hasTokenRoyalty(NFT, t) /\ ~hasContractRoyalty(NFT)) =>
              ViewedRoyalty(t) = defaultRoyalty

\* all three layers hold different records and asset 2 has no token record:
\* asset 1 is reported with its token record and asset 2 with the contract's
C40_Witness ==
    /\ hasTokenRoyalty(NFT, 1)
    /\ ~hasTokenRoyalty(NFT, 2)
    /\ hasContractRoyalty(NFT)
    /\ RoyaltySet(defaultRoyalty)
    /\ TokenRoyalty(NFT, 1) # ContractRoyalty(NFT)
    /\ ContractRoyalty(NFT) # defaultRoyalty
    /\ ViewedRoyalty(1) = TokenRoyalty(NFT, 1)
    /\ ViewedRoyalty(2) = ContractRoyalty(NFT)
    /\ getRoyalty(NFT, 2, 1000, NoRoyaltyAnswer).amount = 50
====
